---- MODULE Spec2Model ----
(***************************************************************************)
(* Resource-lifecycle model of the ng_render backend: SharedCrown,         *)
(* SharedStem, SharedFrond, SharedFrondSwapchain, the Guarded scope guard  *)
(* and Renderer::draw / rebuild / lose_device.                             *)
(*                                                                         *)
(* A native handle is <<kind, frame, index>>: the API hands out a fresh    *)
(* handle on every successful create call, so a handle is named by the     *)
(* draw() call (frame) that created it.  Every fallible API call of one    *)
(* draw() is numbered in program order; the input failAt makes the call    *)
(* with that number fail with the input error err.                         *)
(***************************************************************************)
EXTENDS Integers, Sequences, FiniteSets, TLC

\* ---------------------------------------------------------------- bounds
MaxFrames == 3
NumSwapchainImages == 2

MaxDevices == 2
MaxFamilies == 2
MaxMemoryTypes == 3
MaxImageCount == 3
\* the width given to u32, whose 32 bits are beyond the integers of TLC
U32Bits == 8

\* ------------------------------------------------------ program constants
ShadowSize == 1024
\* u32::MAX
U32Max == 2 ^ U32Bits - 1

Areas == {<<0, 0>>, <<0, 2>>, <<1, 1>>, <<2, 1>>}
ApiErrors == {"ERROR_DEVICE_LOST", "ERROR_OUT_OF_DEVICE_MEMORY"}

\* ---------------------------------------------------------------- handles
NULL == <<"null", 0, 0>>
H(k, f) == <<k, f, 0>>
HI(k, f, i) == <<k, f, i>>

Ev(op, h) == [op |-> op, h |-> h]

\* ------------------------------------------------ the API seen by one call
\* The call numbered failAt of this draw() is the one that fails.
Fails(W) == W.n + 1 = W.failAt

\* a fallible API call that creates no handle
Tick(W, name) ==
    [W EXCEPT !.n = @ + 1, !.log = Append(@, Ev("call", H(name, 0)))]

\* an API call whose result the code ignores or that cannot fail
Note(W, name) == [W EXCEPT !.log = Append(@, Ev("call", H(name, 0)))]

\* a successful create call: the API returns a fresh handle
Create(W, h) ==
    [W EXCEPT !.n = @ + 1,
              !.alive = @ \cup {h},
              !.log = Append(@, Ev("create", h))]

\* a destroy call; destroying the null handle is a no-op of the API
Destroy(W, h) ==
    IF h = NULL
    THEN [W EXCEPT !.log = Append(@, Ev("destroy", h))]
    ELSE [W EXCEPT !.alive = @ \ {h},
                   !.bad = IF h \in W.alive THEN @ ELSE @ \cup {h},
                   !.log = Append(@, Ev("destroy", h))]

Range(s) == { s[i] : i \in 1..Len(s) }

\* a run of destroy calls, in the order of hs
DestroyAll(W, hs) ==
    [W EXCEPT !.alive = @ \ Range(hs),
              !.bad = @ \cup { hs[i] : i \in { j \in 1..Len(hs) :
                                   /\ hs[j] # NULL
                                   /\ \/ hs[j] \notin W.alive
                                      \/ \E m \in 1..(j - 1) : hs[m] = hs[j] } },
              !.log = @ \o [i \in 1..Len(hs) |-> Ev("destroy", hs[i])]]

\* ------------------------------------------------------------ guard.rs
\* a guard whose drop does not invoke the destroy operation
GuardDrop_Forgets(W, g) == W

\* a drop loop that leaves out the first element
GuardDrop_SkipsFirst(W, g) == DestroyAll(W, SubSeq(g, 2, Len(g)))

\* A guard destroys what it holds when it goes out of scope; a sequence
\* guard destroys its elements in iteration order.
GuardDrop(W, g) == DestroyAll(W, g)

\* ------------------------------------------------- construction sequences
\* op: "create" a guarded handle, "call" a fallible API call, "policy" a
\* selection that can reject, "note" an infallible call, "vec" a new
\* sequence guard, "push" a create pushed onto the innermost sequence
\* guard, "packImage" Image{..}.guard_with(device).
St(op, k, e, i) == [op |-> op, k |-> k, e |-> e, i |-> i]
SCreate(k) == St("create", k, "", 0)
SCall(k) == St("call", k, "", 0)
SPolicy(k, e) == St("policy", k, e, 0)
SNote(k) == St("note", k, "", 0)
SVec == St("vec", "", "", 0)
SPush(k, i) == St("push", k, "", i)
SPackImage == St("packImage", "", "", 0)
\* an argument of the next call: role e ("wait", "signal", "fences", "queue")
\* of the object named k
SArg(e, k) == St("arg", k, e, 0)

Res(ok, W, err) == [ok |-> ok, W |-> W, err |-> err]

Fallible(s) == s.op \in {"create", "call", "policy", "push"}
Creates(s) == s.op \in {"create", "push"}
Logged(s) == s.op \notin {"vec", "packImage"}

\* the step at which the injected failure strikes, 0 when every step succeeds
FailingStep(W, steps) ==
    LET F == SelectSeq([j \in 1..Len(steps) |-> j], LAMBDA j : Fallible(steps[j]))
        k == W.failAt - W.n
    IN  IF k >= 1 /\ k <= Len(F) THEN F[k] ELSE 0

StepHandle(W, s) ==
    IF s.op = "push" THEN HI(s.k, W.frame, s.i) ELSE H(s.k, W.frame)

StepEvent(W, s) ==
    IF Creates(s) THEN Ev("create", StepHandle(W, s))
    ELSE IF s.op = "arg" THEN Ev(s.e, H(s.k, 0))
    ELSE Ev("call", H(s.k, 0))

\* the world after steps[1..p] have succeeded
AfterSteps(W, steps, p) ==
    LET done == SubSeq(steps, 1, p)
        ev == SelectSeq(done, Logged)
    IN  [W EXCEPT !.n = @ + Len(SelectSeq(done, Fallible)),
                  !.alive = @ \cup { StepHandle(W, c) : c \in { x \in Range(done) : Creates(x) } },
                  !.log = @ \o [m \in 1..Len(ev) |-> StepEvent(W, ev[m])]]

\* The guard that holds the handle created by steps[q] once steps[1..p]
\* have run: << position of the guard among the locals, place within the
\* guard >>.  A pushed handle sits in the innermost sequence guard; the
\* image, memory and view of an Image sit in one guard, destroyed in the
\* order of Image::destroy_with, once guard_with has packed them; any other
\* handle has a guard of its own.
GuardOf(steps, p, q) ==
    LET packs == { k \in (q + 1)..p : steps[k].op = "packImage" }
        k == IF packs = {} THEN 0 ELSE CHOOSE x \in packs : \A y \in packs : x <= y
        since == Cardinality({ c \in q..k : steps[c].op = "create" })
        vecs == { v \in 1..q : steps[v].op = "vec" }
    IN  IF steps[q].op = "push"
        THEN << CHOOSE v \in vecs : \A y \in vecs : y <= v, q >>
        ELSE IF k # 0 /\ since <= 3
        THEN << k, CASE since = 1 -> 1 [] since = 3 -> 2 [] since = 2 -> 3 >>
        ELSE << q, 0 >>

\* an unwinding that drops the locals in the order of their declaration
UnwindOrder_Forward(W, steps, p) ==
    [m \in 1..Len(SelectSeq(SubSeq(steps, 1, p), Creates)) |->
        StepHandle(W, SelectSeq(SubSeq(steps, 1, p), Creates)[m])]

\* Locals go out of scope in reverse order of declaration: the handles the
\* guards destroy when steps[1..p] have run and the next step fails
UnwindOrder(W, steps, p) ==
    LET g == [q \in 1..p |-> GuardOf(steps, p, q)]
        cs == SelectSeq([j \in 1..p |-> j], LAMBDA j : Creates(steps[j]))
        sorted == SortSeq(cs, LAMBDA a, b :
                      \/ g[a][1] > g[b][1]
                      \/ g[a][1] = g[b][1] /\ g[a][2] < g[b][2])
    IN  [m \in 1..Len(sorted) |-> StepHandle(W, steps[sorted[m]])]

\* the MutexGuard over the surface is a local of steps[1..p]: locked and
\* not yet dropped
LockHeld(steps, p) ==
    Len(SelectSeq(SubSeq(steps, 1, p), LAMBDA s : s = SNote("surface.lock")))
        > Len(SelectSeq(SubSeq(steps, 1, p), LAMBDA s : s = SNote("surface.unlock")))

\* an early return that leaves the surface locked
LockGuardDrop_Leaks(W, steps, p) == W

\* an early return drops the MutexGuard it holds.  No body creates a handle
\* between its lock and a failure, so the guard is the innermost local.
LockGuardDrop(W, steps, p) ==
    IF LockHeld(steps, p) THEN Note(W, "surface.unlock") ELSE W

\* one constructor or function body, its calls in program order, when
\* step f fails (0: none)
RunStepsTo(W, steps, f) ==
    IF f = 0
    THEN Res(TRUE, AfterSteps(W, steps, Len(steps)), "")
    ELSE Res(FALSE,
             GuardDrop(LockGuardDrop(Tick(AfterSteps(W, steps, f - 1), steps[f].k),
                                     steps, f - 1),
                       UnwindOrder(W, steps, f - 1)),
             IF steps[f].op = "policy" THEN steps[f].e ELSE W.err)

RunSteps(W, steps) == RunStepsTo(W, steps, FailingStep(W, steps))

\* ------------------------------------------------------- step sequences
SetNames == [i \in 1..NumSwapchainImages |-> SCall("set_name")]
Pushes(k) == [i \in 1..NumSwapchainImages |-> SPush(k, i)]

\* SharedCrown::new: the entry, the instance (create_instance), the debug
\* messenger and the surface
SharedCrown_new_steps ==
    << SPolicy("Entry::new", "EntryError"),
       SCall("enumerate_required_extensions"),
       SCreate("instance"),
       SCreate("debug_utils_messenger"),
       SCreate("surface") >>

SharedStem_new_steps ==
    << SNote("surface.lock"),
       SCall("enumerate_physical_devices"),
       SCall("get_physical_device_surface_support"),
       SPolicy("select_physical_device_and_queue_families", "NoAcceptableDeviceError"),
       SCreate("device"),
       SNote("surface.unlock"),
       SCreate("command_pool"), SCall("set_name"),
       SCall("allocate_command_buffers"), SCall("set_name"),
       SCreate("image_acquired_semaphore"), SCall("set_name"),
       SCreate("render_complete_semaphore"), SCall("set_name"),
       SCreate("presentation_fence"), SCall("set_name"),
       SCreate("fullscreen_vert_shader_module"), SCall("set_name") >>

GeometryStem_new_steps ==
    << SCreate("geometry.pipeline_layout"), SCall("set_name"),
       SCreate("geometry.triangle_vert_shader_module"), SCall("set_name"),
       SCreate("geometry.triangle_frag_shader_module"), SCall("set_name") >>

LightingStem_new_steps ==
    << SCreate("lighting.descriptor_set_layout"), SCall("set_name"),
       SCreate("lighting.pipeline_layout"), SCall("set_name"),
       SCreate("lighting.volumetric_vert_shader_module"), SCall("set_name"),
       SCreate("lighting.volumetric_frag_shader_module"), SCall("set_name"),
       SCreate("lighting.lighting_frag_shader_module"), SCall("set_name"),
       SCreate("lighting.shadow_sampler"), SCall("set_name") >>

TonemappingStem_new_steps ==
    << SCreate("tonemapping.descriptor_set_layout"), SCall("set_name"),
       SCreate("tonemapping.pipeline_layout"), SCall("set_name"),
       SCreate("tonemapping.frag_shader_module"), SCall("set_name") >>

\* an Image::new that asks the selector after it has allocated the memory
Image_new_steps_SelectsLate(name) ==
    << SCreate(name \o ".image"),
       SNote("get_image_memory_requirements"),
       SCreate(name \o ".memory"),
       SPolicy("select_memory_type", "NoAcceptableMeoryType"),
       SCall("bind_image_memory"),
       SCreate(name \o ".view"),
       SPackImage >>

\* Image::new: image, memory requirements, the selector, memory, bind,
\* view, then Image{..}.guard_with(device)
Image_new_steps(name) ==
    << SCreate(name \o ".image"),
       SNote("get_image_memory_requirements"),
       SPolicy("select_memory_type", "NoAcceptableMeoryType"),
       SCreate(name \o ".memory"),
       SCall("bind_image_memory"),
       SCreate(name \o ".view"),
       SPackImage >>

create_image_steps(name) ==
    Image_new_steps(name) \o << SCall("set_name"), SCall("set_name"), SCall("set_name") >>

select_surface_format_steps ==
    << SNote("surface.lock"),
       SCall("get_physical_device_surface_formats"),
       SPolicy("select_surface_format", "NoAcceptableSurfaceFormat"),
       SNote("surface.unlock") >>

create_swapchain_steps ==
    << SNote("surface.lock"),
       SCall("get_physical_device_surface_capabilities"),
       SCall("get_physical_device_surface_present_modes") >>

create_swapchain_image_views_steps ==
    << SVec, SCall("get_swapchain_images") >> \o Pushes("swapchain_image_view")

\* new_with_swapchain after the swapchain has been created
new_with_swapchain_steps ==
    << SCall("get_swapchain_images") >> \o SetNames
    \o create_swapchain_image_views_steps \o SetNames
    \o create_image_steps("diffuse")
    \o create_image_steps("normal")
    \o create_image_steps("depth_stencil")
    \o create_image_steps("shadow")
    \o create_image_steps("light")

GeometryFrond_new_steps ==
    << SCreate("geometry.render_pass"), SCall("set_name"),
       SCreate("geometry.pipeline"), SCall("set_name"),
       SCreate("geometry.framebuffer"), SCall("set_name") >>

LightingFrond_new_steps ==
    << SCreate("lighting.descriptor_pool"), SCall("set_name"),
       SCall("allocate_descriptor_sets"), SCall("set_name"),
       SCreate("lighting.render_pass"), SCall("set_name"),
       SCreate("lighting.volumetric_pipeline"), SCall("set_name"),
       SCreate("lighting.lighting_pipeline"), SCall("set_name"),
       SCreate("lighting.framebuffer"), SCall("set_name") >>

TonemappingFrond_new_steps ==
    << SCreate("tonemapping.descriptor_pool"), SCall("set_name"),
       SCall("allocate_descriptor_sets"), SCall("set_name"),
       SCreate("tonemapping.render_pass"), SCall("set_name"),
       SCreate("tonemapping.pipeline"), SCall("set_name"),
       SVec >> \o Pushes("tonemapping.framebuffer") \o SetNames

\* a frame protocol that submits without waiting on the acquire semaphore
RendererFrond_draw_steps_NoAcquireWait ==
    << SArg("fences", "presentation_fence"), SCall("wait_for_fences"),
       SArg("fences", "presentation_fence"), SCall("reset_fences"),
       SArg("signal", "image_acquired_semaphore"), SCall("acquire_next_image"),
       SCall("reset_command_buffer"), SCall("begin_command_buffer"),
       SNote("geometry.draw"), SNote("lighting.draw"), SNote("tonemapping.draw"),
       SCall("end_command_buffer"),
       SArg("signal", "render_complete_semaphore"),
       SArg("queue", "graphics"), SArg("signal", "presentation_fence"),
       SCall("queue_submit"),
       SArg("wait", "render_complete_semaphore"), SArg("queue", "present"),
       SCall("queue_present") >>

\* a frame protocol that resets the command buffer before it waits for the
\* fence
RendererFrond_draw_steps_ResetsBeforeWait ==
    << SCall("reset_command_buffer"),
       SArg("fences", "presentation_fence"), SCall("wait_for_fences"),
       SArg("fences", "presentation_fence"), SCall("reset_fences"),
       SArg("signal", "image_acquired_semaphore"), SCall("acquire_next_image"),
       SCall("begin_command_buffer"),
       SNote("geometry.draw"), SNote("lighting.draw"), SNote("tonemapping.draw"),
       SCall("end_command_buffer"),
       SArg("wait", "image_acquired_semaphore"),
       SArg("signal", "render_complete_semaphore"),
       SArg("queue", "graphics"), SArg("signal", "presentation_fence"),
       SCall("queue_submit"),
       SArg("wait", "render_complete_semaphore"), SArg("queue", "present"),
       SCall("queue_present") >>

\* RendererFrond::draw: its API calls in program order, each preceded by
\* the semaphores, fence and queue it is given
RendererFrond_draw_steps ==
    << SArg("fences", "presentation_fence"), SCall("wait_for_fences"),
       SArg("fences", "presentation_fence"), SCall("reset_fences"),
       SArg("signal", "image_acquired_semaphore"), SCall("acquire_next_image"),
       SCall("reset_command_buffer"), SCall("begin_command_buffer"),
       SNote("geometry.draw"), SNote("lighting.draw"), SNote("tonemapping.draw"),
       SCall("end_command_buffer"),
       SArg("wait", "image_acquired_semaphore"),
       SArg("signal", "render_complete_semaphore"),
       SArg("queue", "graphics"), SArg("signal", "presentation_fence"),
       SCall("queue_submit"),
       SArg("wait", "render_complete_semaphore"), SArg("queue", "present"),
       SCall("queue_present") >>

\* --------------------------------------------------------------- objects
Types == {"SharedCrown", "SharedStem", "GeometryStem", "LightingStem",
          "TonemappingStem", "SharedFrond", "GeometryFrond", "LightingFrond",
          "TonemappingFrond"}

NoFields == [none |-> TRUE]
NoObj == [rc |-> 0, f |-> NoFields]

SharedCrownFields(f) ==
    [instance |-> H("instance", f),
     debug_utils_messenger |-> H("debug_utils_messenger", f),
     surface |-> H("surface", f)]

SharedStemFields(f) ==
    [id |-> f,
     device |-> H("device", f),
     command_pool |-> H("command_pool", f),
     image_acquired_semaphore |-> H("image_acquired_semaphore", f),
     render_complete_semaphore |-> H("render_complete_semaphore", f),
     presentation_fence |-> H("presentation_fence", f),
     fullscreen_vert_shader_module |-> H("fullscreen_vert_shader_module", f)]

GeometryStemFields(f, stem) ==
    [shared_stem |-> stem,
     pipeline_layout |-> H("geometry.pipeline_layout", f),
     triangle_vert_shader_module |-> H("geometry.triangle_vert_shader_module", f),
     triangle_frag_shader_module |-> H("geometry.triangle_frag_shader_module", f)]

LightingStemFields(f, stem) ==
    [shared_stem |-> stem,
     descriptor_set_layout |-> H("lighting.descriptor_set_layout", f),
     pipeline_layout |-> H("lighting.pipeline_layout", f),
     volumetric_vert_shader_module |-> H("lighting.volumetric_vert_shader_module", f),
     volumetric_frag_shader_module |-> H("lighting.volumetric_frag_shader_module", f),
     lighting_frag_shader_module |-> H("lighting.lighting_frag_shader_module", f),
     shadow_sampler |-> H("lighting.shadow_sampler", f)]

TonemappingStemFields(f, stem) ==
    [shared_stem |-> stem,
     descriptor_set_layout |-> H("tonemapping.descriptor_set_layout", f),
     pipeline_layout |-> H("tonemapping.pipeline_layout", f),
     frag_shader_module |-> H("tonemapping.frag_shader_module", f)]

ImageFields(name, f, res) ==
    [image |-> H(name \o ".image", f),
     memory |-> H(name \o ".memory", f),
     view |-> H(name \o ".view", f),
     resolution |-> res]

\* a frond whose shadow image is sized to the window
SharedFrondFields_ShadowAtResolution(f, stem, res, swapchain) ==
    [stem |-> stem,
     resolution |-> res,
     swapchain |-> swapchain,
     swapchain_image_views |->
         [i \in 1..NumSwapchainImages |-> HI("swapchain_image_view", f, i)],
     diffuse |-> ImageFields("diffuse", f, res),
     normal |-> ImageFields("normal", f, res),
     depth_stencil |-> ImageFields("depth_stencil", f, res),
     shadow |-> ImageFields("shadow", f, res),
     light |-> ImageFields("light", f, res)]

\* a frond that refers to a stem of its own frame instead of the stem it
\* was given
SharedFrondFields_OwnStem(f, stem, res, swapchain) ==
    [SharedFrondFields_ShadowAtResolution(f, stem, res, swapchain) EXCEPT !.stem = f]

\* the fields of the SharedFrond that new_with_swapchain returns
SharedFrondFields(f, stem, res, swapchain) ==
    [stem |-> stem,
     resolution |-> res,
     swapchain |-> swapchain,
     swapchain_image_views |->
         [i \in 1..NumSwapchainImages |-> HI("swapchain_image_view", f, i)],
     diffuse |-> ImageFields("diffuse", f, res),
     normal |-> ImageFields("normal", f, res),
     depth_stencil |-> ImageFields("depth_stencil", f, res),
     shadow |-> ImageFields("shadow", f, <<ShadowSize, ShadowSize>>),
     light |-> ImageFields("light", f, res)]

GeometryFrondFields(f) ==
    [render_pass |-> H("geometry.render_pass", f),
     pipeline |-> H("geometry.pipeline", f),
     framebuffer |-> H("geometry.framebuffer", f)]

LightingFrondFields(f) ==
    [descriptor_pool |-> H("lighting.descriptor_pool", f),
     render_pass |-> H("lighting.render_pass", f),
     volumetric_pipeline |-> H("lighting.volumetric_pipeline", f),
     lighting_pipeline |-> H("lighting.lighting_pipeline", f),
     framebuffer |-> H("lighting.framebuffer", f)]

TonemappingFrondFields(f) ==
    [descriptor_pool |-> H("tonemapping.descriptor_pool", f),
     render_pass |-> H("tonemapping.render_pass", f),
     pipeline |-> H("tonemapping.pipeline", f),
     framebuffers |->
         [i \in 1..NumSwapchainImages |-> HI("tonemapping.framebuffer", f, i)]]

\* Image::destroy_with
Image_destroy_with(img) == << img.view, img.image, img.memory >>

\* The destroy calls of each Drop impl, in the order the impl makes them.
DropHandles(t, o) ==
    CASE t = "SharedCrown" ->
            << o.surface, o.debug_utils_messenger, o.instance >>
      [] t = "SharedStem" ->
            << o.fullscreen_vert_shader_module, o.presentation_fence,
               o.image_acquired_semaphore, o.render_complete_semaphore,
               o.command_pool, o.device >>
      [] t = "GeometryStem" ->
            << o.triangle_vert_shader_module, o.triangle_frag_shader_module,
               o.pipeline_layout >>
      [] t = "LightingStem" ->
            << o.shadow_sampler, o.volumetric_frag_shader_module,
               o.volumetric_vert_shader_module, o.lighting_frag_shader_module,
               o.pipeline_layout, o.descriptor_set_layout >>
      [] t = "TonemappingStem" ->
            << o.frag_shader_module, o.pipeline_layout, o.descriptor_set_layout >>
      [] t = "SharedFrond" ->
            Image_destroy_with(o.shadow) \o Image_destroy_with(o.normal)
            \o Image_destroy_with(o.light) \o Image_destroy_with(o.diffuse)
            \o Image_destroy_with(o.depth_stencil)
            \o o.swapchain_image_views \o << o.swapchain >>
      [] t = "GeometryFrond" ->
            << o.framebuffer, o.pipeline, o.render_pass >>
      [] t = "LightingFrond" ->
            << o.framebuffer, o.volumetric_pipeline, o.lighting_pipeline,
               o.render_pass, o.descriptor_pool >>
      [] t = "TonemappingFrond" ->
            o.framebuffers \o << o.pipeline, o.render_pass, o.descriptor_pool >>

\* a drop that destroys without waiting for the device
DropBody_NoWait(W, t) == DestroyAll(W, DropHandles(t, W.heap[t].f))

\* Drop::drop of each type
DropBody(W, t) ==
    IF t = "SharedCrown"
    THEN Note(DestroyAll(Note(W, "surface.lock"), DropHandles(t, W.heap[t].f)),
              "surface.unlock")
    ELSE DestroyAll(Note(W, "device_wait_idle"), DropHandles(t, W.heap[t].f))

\* the Arc fields of each type, in declaration order
ArcFields(t) ==
    CASE t = "SharedCrown" -> << >>
      [] t = "SharedStem" -> << "SharedCrown" >>
      [] t = "GeometryStem" -> << "SharedStem" >>
      [] t = "LightingStem" -> << "SharedStem" >>
      [] t = "TonemappingStem" -> << "SharedStem" >>
      [] t = "SharedFrond" -> << "SharedStem" >>
      [] t = "GeometryFrond" -> << "SharedFrond", "GeometryStem" >>
      [] t = "LightingFrond" -> << "SharedFrond", "LightingStem" >>
      [] t = "TonemappingFrond" -> << "SharedFrond", "TonemappingStem" >>

\* Arc::new of a constructed object; W.frame names the instance
ArcNew(W, t, fields) ==
    [W EXCEPT !.heap[t] = [rc |-> 1, f |-> fields],
              !.log = Append(@, Ev("new", H(t, W.frame)))]
ArcClone(W, t) == [W EXCEPT !.heap[t].rc = @ + 1]

\* the last owner of an object lets go of it
Dropped(W, t) == [W EXCEPT !.log = Append(@, Ev("drop", H(t, 0)))]

\* dropping an Arc: the last owner runs Drop::drop, then drops the fields
RECURSIVE ArcDrop(_, _), ArcDropAll(_, _)
ArcDrop(W, t) ==
    IF W.heap[t].rc > 1
    THEN [W EXCEPT !.heap[t].rc = @ - 1]
    ELSE ArcDropAll([DropBody(Dropped(W, t), t) EXCEPT !.heap[t] = NoObj],
                    ArcFields(t))

ArcDropAll(W, ts) ==
    IF ts = << >> THEN W ELSE ArcDropAll(ArcDrop(W, Head(ts)), Tail(ts))

\* ------------------------------------------------------------- shared.rs
\* outcome of a function: st is "ok", "err" or "panic"
Out(st, W, variant, err, sw) ==
    [st |-> st, W |-> W, variant |-> variant, err |-> err, sw |-> sw]

\* a zero-area test that lets an area with one zero side through
NoSurfaceArea_BothZero(resolution) == resolution[1] = 0 /\ resolution[2] = 0

\* the zero-area test of new_with_swapchain
NoSurfaceArea(resolution) == resolution[1] = 0 \/ resolution[2] = 0

\* an assignment that destroys the handle it overwrites
AssignSwapchain_DestroysOld(W, old, new) == Destroy(W, old)

\* *swapchain = create_swapchain(.., *swapchain)?: the caller's handle is
\* overwritten by the new one
AssignSwapchain(W, old, new) == W

\* std::mem::take(swapchain): what new_with_swapchain leaves in the caller's
\* handle when it succeeds
TakenSwapchain(sw) == NULL

\* new_with_swapchain from get_swapchain_images on: r3 is the outcome of
\* these statements, new the swapchain just created
new_with_swapchain_images(W, r3, area, new) ==
    IF ~r3.ok
    THEN Out("err", ArcDrop(r3.W, "SharedStem"), "FrondCreationError", r3.err, new)
    ELSE Out("ok",
             ArcNew(r3.W, "SharedFrond",
                    SharedFrondFields(W.frame, W.heap["SharedStem"].f.id, area, new)),
             "", "", TakenSwapchain(new))

\* a create_swapchain that returns with the surface still locked
create_swapchain_return_KeepsLock(W) == W

\* create_swapchain returns: its MutexGuard over the surface goes out of
\* scope after the create call, on success and on failure
create_swapchain_return(W) == Note(W, "surface.unlock")

\* new_with_swapchain at create_swapchain: r1 is the outcome of the
\* statements before the create call
new_with_swapchain_create(W, r1, area, sw) ==
    IF ~r1.ok
    THEN Out("err", ArcDrop(r1.W, "SharedStem"), "FrondCreationError", r1.err, sw)
    ELSE IF Fails(r1.W)
    THEN Out("err",
             ArcDrop(create_swapchain_return(Tick(r1.W, "create_swapchain")),
                     "SharedStem"),
             "FrondCreationError", W.err, sw)
    ELSE new_with_swapchain_images(
             W,
             RunSteps(AssignSwapchain(
                          create_swapchain_return(Create(r1.W, H("swapchain", W.frame))),
                          sw, H("swapchain", W.frame)),
                      new_with_swapchain_steps),
             area, H("swapchain", W.frame))

\* a new_with_swapchain that selects the surface format before it looks at
\* the area
new_with_swapchain_ChecksLate(W, area, sw) ==
    IF NoSurfaceArea(area)
    THEN Out("err",
             ArcDrop(RunSteps(ArcClone(W, "SharedStem"), select_surface_format_steps).W,
                     "SharedStem"),
             "FrondCreationError", "NoSurfaceArea", sw)
    ELSE new_with_swapchain_create(
             W,
             RunSteps(ArcClone(W, "SharedStem"),
                      select_surface_format_steps \o create_swapchain_steps),
             area, sw)

\* SharedFrond::new_with_swapchain(stem, &mut swapchain); the stem argument
\* is a clone made by the caller's call.  sw is the caller's handle on return.
new_with_swapchain(W, area, sw) ==
    IF NoSurfaceArea(area)
    THEN Out("err", ArcDrop(ArcClone(W, "SharedStem"), "SharedStem"),
             "FrondCreationError", "NoSurfaceArea", sw)
    ELSE new_with_swapchain_create(
             W,
             RunSteps(ArcClone(W, "SharedStem"),
                      select_surface_format_steps \o create_swapchain_steps),
             area, sw)

\* a SharedFrond::new that holds the swapchain handle without a guard
SharedFrond_new_return_Unguarded(r) ==
    Out(r.st, ArcDrop(r.W, "SharedStem"), r.variant, r.err, NULL)

\* SharedFrond::new on return: the guard over the local swapchain handle is
\* dropped on every path
SharedFrond_new_return(r) ==
    Out(r.st, ArcDrop(GuardDrop(r.W, << r.sw >>), "SharedStem"), r.variant, r.err, NULL)

\* SharedFrond::new: the guard holds a clone of the stem
SharedFrond_new(W, area) ==
    SharedFrond_new_return(new_with_swapchain(ArcClone(W, "SharedStem"), area, NULL))

\* a take_swapchain that leaves the handle in the frond it consumes
SwapchainAfterTake_KeepsHandle(sw) == sw

\* what SharedFrond::take_swapchain leaves in self.swapchain
SwapchainAfterTake(sw) == NULL

\* a take_swapchain whose result holds no reference to the stem
SharedFrond_take_swapchain_WithoutStem(W) ==
    Out("ok",
        ArcDrop([W EXCEPT !.heap["SharedFrond"].f.swapchain = SwapchainAfterTake(@)],
                "SharedFrond"),
        "", "", W.heap["SharedFrond"].f.swapchain)

\* SharedFrond::take_swapchain(mut self) on the only owner
SharedFrond_take_swapchain(W) ==
    Out("ok",
        ArcDrop([ArcClone(W, "SharedStem") EXCEPT
                    !.heap["SharedFrond"].f.swapchain = SwapchainAfterTake(@)],
                "SharedFrond"),
        "", "", W.heap["SharedFrond"].f.swapchain)

\* a resize test with the comparison inverted
SharedFrond_needs_resizing_Inverted(W, area) ==
    W.heap["SharedFrond"].f.resolution = area

SharedFrond_needs_resizing(W, area) ==
    W.heap["SharedFrond"].f.resolution # area

\* Drop for SharedFrondSwapchain, then its stem field
SharedFrondSwapchain_drop(W, sw) ==
    ArcDrop(Destroy(Note(W, "device_wait_idle"), sw), "SharedStem")

\* a resurrect that destroys the swapchain it hands back on failure
SharedFrondSwapchain_resurrect_return_DestroysOnFailure(r) ==
    IF r.st = "ok"
    THEN Out("ok", SharedFrondSwapchain_drop(r.W, r.sw), "", "", NULL)
    ELSE Out(r.st, Destroy(r.W, r.sw), r.variant, r.err, r.sw)

\* SharedFrondSwapchain::resurrect on return: self is dropped on success and
\* handed back with the error on failure
SharedFrondSwapchain_resurrect_return(r) ==
    IF r.st = "ok"
    THEN Out("ok", SharedFrondSwapchain_drop(r.W, r.sw), "", "", NULL)
    ELSE r

\* SharedFrondSwapchain::resurrect(mut self)
SharedFrondSwapchain_resurrect(W, area, sw) ==
    SharedFrondSwapchain_resurrect_return(new_with_swapchain(W, area, sw))

\* ----------------------------------------------------------- renderer.rs
PassStems == << "GeometryStem", "LightingStem", "TonemappingStem" >>
PassFronds == << "GeometryFrond", "LightingFrond", "TonemappingFrond" >>
RendererStem_fields == << "GeometryStem", "LightingStem", "SharedStem", "TonemappingStem" >>
RendererFrond_fields == << "GeometryFrond", "LightingFrond", "SharedFrond", "TonemappingFrond" >>

PassStemSteps(t) ==
    CASE t = "GeometryStem" -> GeometryStem_new_steps
      [] t = "LightingStem" -> LightingStem_new_steps
      [] t = "TonemappingStem" -> TonemappingStem_new_steps

PassStemFields(t, f, stem) ==
    CASE t = "GeometryStem" -> GeometryStemFields(f, stem)
      [] t = "LightingStem" -> LightingStemFields(f, stem)
      [] t = "TonemappingStem" -> TonemappingStemFields(f, stem)

PassFrondSteps(t) ==
    CASE t = "GeometryFrond" -> GeometryFrond_new_steps
      [] t = "LightingFrond" -> LightingFrond_new_steps
      [] t = "TonemappingFrond" -> TonemappingFrond_new_steps

PassFrondFields(t, f) ==
    CASE t = "GeometryFrond" -> GeometryFrondFields(f)
      [] t = "LightingFrond" -> LightingFrondFields(f)
      [] t = "TonemappingFrond" -> TonemappingFrondFields(f)

Reverse(s) == [i \in 1..Len(s) |-> s[Len(s) + 1 - i]]

\* RendererCrown::new after SharedCrown::new returned r
RendererCrown_new_shared(r) ==
    IF ~r.ok
    THEN Out("err", r.W, "CrownCreationError", r.err, NULL)
    ELSE Out("ok", ArcNew(r.W, "SharedCrown", SharedCrownFields(r.W.frame)), "", "", NULL)

\* Renderer::new: RendererCrown::new, stem_and_frond: None
Renderer_new(W) == RendererCrown_new_shared(RunSteps(W, SharedCrown_new_steps))

\* SemaphoreCreateInfo::default(): a binary semaphore is created unsignaled
semaphore_create_info == "unsignaled"

\* a fence created without the SIGNALED flag
signaled_fence_create_info_Unsignaled == "unsignaled"

\* vk::FenceCreateFlags::SIGNALED: the state in which SharedStem::new creates
\* the presentation fence
signaled_fence_create_info == "signaled"

\* RendererStem::new: the pass stems are built in order from clones of the
\* SharedStem; on failure the locals built so far are dropped in reverse
RECURSIVE BuildPassStems(_, _)

\* r is the outcome of the constructor of pass stem i
PassStemBuilt(W, i, r) ==
    IF ~r.ok
    THEN Out("err",
             ArcDropAll(ArcDrop(r.W, "SharedStem"),
                        Reverse(SubSeq(PassStems, 1, i - 1)) \o << "SharedStem" >>),
             "VkError", r.err, NULL)
    ELSE BuildPassStems(
             ArcNew(r.W, PassStems[i],
                    PassStemFields(PassStems[i], W.frame, W.heap["SharedStem"].f.id)),
             i + 1)

BuildPassStems(W, i) ==
    IF i > Len(PassStems) THEN Out("ok", W, "", "", NULL)
    ELSE PassStemBuilt(W, i,
             RunSteps(ArcClone(W, "SharedStem"), PassStemSteps(PassStems[i])))

\* RendererStem::new after SharedStem::new returned r
RendererStem_new_shared(W, r) ==
    IF ~r.ok
    THEN Out("err", ArcDrop(r.W, "SharedCrown"), "StemCreationError", r.err, NULL)
    ELSE BuildPassStems(
             [ArcNew(r.W, "SharedStem", SharedStemFields(W.frame))
                 EXCEPT !.fence = signaled_fence_create_info,
                        !.semaphore = semaphore_create_info],
             1)

\* a RendererStem::new that hands the Renderer's own reference to the crown
\* to SharedStem::new
RendererStem_new_MovesCrown(W) ==
    RendererStem_new_shared(W, RunSteps(W, SharedStem_new_steps))

\* RendererStem::new: SharedStem::new is given a clone of the crown
RendererStem_new(W) ==
    RendererStem_new_shared(W, RunSteps(ArcClone(W, "SharedCrown"), SharedStem_new_steps))

\* SharedStem::assert_is
assert_is(a, b) == a = b

\* RendererFrond::new_from_shared_frond(stem, shared): owns one reference to
\* the SharedFrond, which it drops last when a pass frond fails
RECURSIVE BuildPassFronds(_, _)

\* what is dropped when the constructor of pass frond i fails: its two
\* arguments, the pass fronds built so far in reverse, the SharedFrond
PassFrondUndo(i) ==
    << "SharedFrond", PassStems[i] >>
    \o Reverse(SubSeq(PassFronds, 1, i - 1)) \o << "SharedFrond" >>

\* r is the outcome of the constructor of pass frond i
PassFrondBuilt(W, i, r) ==
    IF ~r.ok
    THEN Out("err", ArcDropAll(r.W, PassFrondUndo(i)), "VkError", r.err, NULL)
    ELSE BuildPassFronds(
             ArcNew(r.W, PassFronds[i], PassFrondFields(PassFronds[i], W.frame)),
             i + 1)

BuildPassFronds(W, i) ==
    IF i > Len(PassFronds) THEN Out("ok", W, "", "", NULL)
    ELSE IF ~assert_is(W.heap[PassStems[i]].f.shared_stem, W.heap["SharedFrond"].f.stem)
    THEN Out("panic",
             ArcDropAll(ArcClone(ArcClone(W, PassStems[i]), "SharedFrond"),
                        PassFrondUndo(i)),
             "", "Mismatched stems", NULL)
    ELSE PassFrondBuilt(W, i,
             RunSteps(ArcClone(ArcClone(W, PassStems[i]), "SharedFrond"),
                      PassFrondSteps(PassFronds[i])))

RendererFrond_new_from_shared_frond(W) == BuildPassFronds(W, 1)

\* RendererFrond::new after SharedFrond::new returned r
RendererFrond_new_shared(r) ==
    IF r.st # "ok" THEN r ELSE RendererFrond_new_from_shared_frond(r.W)

RendererFrond_new(W, area) == RendererFrond_new_shared(SharedFrond_new(W, area))

\* Arc::try_unwrap succeeds for the only owner
try_unwrap_ok(W) == W.heap["SharedFrond"].rc = 1

\* RendererFrond::take_swapchain once the pass fronds are dropped
RendererFrond_take_swapchain_shared(W) ==
    IF try_unwrap_ok(W)
    THEN SharedFrond_take_swapchain(W)
    ELSE Out("panic", ArcDrop(W, "SharedFrond"), "", "Cannot take swapchain", NULL)

\* RendererFrond::take_swapchain(self)
RendererFrond_take_swapchain(W) ==
    RendererFrond_take_swapchain_shared(ArcDropAll(W, PassFronds))

\* the error of map_err's closure: t is the outcome of take_swapchain
RendererFrond_resurrect_taken(t, b) == Out("err", t.W, b.variant, b.err, t.sw)

\* the closure of map_err: Arc::try_unwrap(shared.clone()), W holding the
\* clone, b the error of new_from_shared_frond
RendererFrond_resurrect_map_err(W, b) ==
    IF try_unwrap_ok(W)
    THEN RendererFrond_resurrect_taken(SharedFrond_take_swapchain(W), b)
    ELSE Out("panic", ArcDropAll(W, << "SharedFrond", "SharedFrond" >>),
             "", "Cannot take swapchain", NULL)

\* RendererFrond::resurrect after new_from_shared_frond returned b
RendererFrond_resurrect_built(b) ==
    IF b.st = "ok" THEN Out("ok", ArcDrop(b.W, "SharedFrond"), "", "", NULL)
    ELSE IF b.st = "panic" THEN Out("panic", ArcDrop(b.W, "SharedFrond"), "", b.err, NULL)
    ELSE RendererFrond_resurrect_map_err(ArcClone(b.W, "SharedFrond"), b)

\* RendererFrond::resurrect after swapchain.resurrect() returned r
RendererFrond_resurrect_shared(r) ==
    IF r.st # "ok" THEN r
    ELSE RendererFrond_resurrect_built(
             RendererFrond_new_from_shared_frond(ArcClone(r.W, "SharedFrond")))

\* RendererFrond::resurrect(stem, swapchain)
RendererFrond_resurrect(W, area, sw) ==
    RendererFrond_resurrect_shared(SharedFrondSwapchain_resurrect(W, area, sw))

\* the value RendererFrond::draw returns: r is the outcome of its calls
RendererFrond_draw_return(r, suboptimal_acquire, suboptimal_present) ==
    IF r.ok
    THEN [st |-> "ok", W |-> r.W, val |-> ~suboptimal_acquire /\ ~suboptimal_present,
          err |-> ""]
    ELSE [st |-> "err", W |-> r.W, val |-> FALSE, err |-> r.err]

\* the place of the call named k in a sequence of steps
StepIndex(steps, k) == CHOOSE j \in 1..Len(steps) : steps[j].k = k

\* a frame protocol whose error returns leave the fence signaled, as if it
\* were reset only when the batch is submitted
FenceAfter_ResetAtSubmit(fence, f) ==
    IF f = 0 \/ f > StepIndex(RendererFrond_draw_steps, "queue_submit") THEN "pending"
    ELSE IF f <= StepIndex(RendererFrond_draw_steps, "wait_for_fences") THEN fence
    ELSE "signaled"

\* The presentation fence after the frame protocol in which step f failed
\* (0: none).  A successful wait leaves it signaled, reset_fences unsignals
\* it, queue_submit leaves a batch pending that will signal it.
FenceAfter(fence, f) ==
    IF f = 0 \/ f > StepIndex(RendererFrond_draw_steps, "queue_submit") THEN "pending"
    ELSE IF f <= StepIndex(RendererFrond_draw_steps, "wait_for_fences") THEN fence
    ELSE IF f <= StepIndex(RendererFrond_draw_steps, "reset_fences") THEN "signaled"
    ELSE "unsignaled"

\* The image-acquired semaphore when acquire_next_image is called, the wait
\* on the fence having returned: the batch that waited on the semaphore has
\* completed, an acquire whose signal no batch has waited for leaves it
\* signaled.
SemaphoreAtAcquire(semaphore) ==
    IF semaphore = "pending" THEN "unsignaled" ELSE semaphore

\* The image-acquired semaphore after the frame protocol in which step f
\* failed (0: none).  acquire_next_image signals it, the batch of
\* queue_submit waits on it.
SemaphoreAfter(semaphore, f) ==
    IF f = 0 \/ f > StepIndex(RendererFrond_draw_steps, "queue_submit") THEN "pending"
    ELSE IF f <= StepIndex(RendererFrond_draw_steps, "wait_for_fences") THEN semaphore
    ELSE IF f <= StepIndex(RendererFrond_draw_steps, "acquire_next_image")
    THEN SemaphoreAtAcquire(semaphore)
    ELSE "signaled"

\* history: the state of the presentation fence when wait_for_fences is
\* called, and the state the image-acquired semaphore has at
\* acquire_next_image if this draw() gets there
ObserveFence(W) ==
    [W EXCEPT !.log = @ \o << Ev("fence", H(W.fence, 0)),
                              Ev("semaphore", H(SemaphoreAtAcquire(W.semaphore), 0)) >>]

\* RendererFrond::draw: the frame protocol.  wait_for_fences with the
\* timeout u64::MAX does not return while the fence is unsignaled and no
\* submitted batch is going to signal it.
RendererFrond_draw(W, suboptimal_acquire, suboptimal_present) ==
    IF W.fence = "unsignaled"
    THEN [st |-> "blocked",
          W |-> Note([ObserveFence(W) EXCEPT !.log =
                         Append(@, Ev("fences", H("presentation_fence", 0)))],
                     "wait_for_fences"),
          val |-> FALSE, err |-> ""]
    ELSE RendererFrond_draw_return(
             RunSteps([ObserveFence(W) EXCEPT
                           !.fence = FenceAfter(@, FailingStep(W, RendererFrond_draw_steps)),
                           !.semaphore =
                               SemaphoreAfter(@, FailingStep(W, RendererFrond_draw_steps))],
                      RendererFrond_draw_steps),
             suboptimal_acquire, suboptimal_present)

\* the value of Renderer::stem_and_frond
None == [tag |-> "None", swapchain |-> NULL]
SomeOk == [tag |-> "Ok", swapchain |-> NULL]
SomeErr(sw) == [tag |-> "Err", swapchain |-> sw]

\* dropping a RendererStemAndFrond: stem first, then frond
DropStemAndFrond(W, sf) ==
    CASE sf.tag = "None" -> W
      [] sf.tag = "Ok" -> ArcDropAll(ArcDropAll(W, RendererStem_fields), RendererFrond_fields)
      [] sf.tag = "Err" ->
            SharedFrondSwapchain_drop(ArcDropAll(W, RendererStem_fields), sf.swapchain)

\* Renderer::rebuild; sf is the value left in self.stem_and_frond
Rb(st, W, sf, variant, err) ==
    [st |-> st, W |-> W, sf |-> sf, variant |-> variant, err |-> err]

\* rebuild after RendererFrond::resurrect returned r: the frond or the
\* swapchain is stored, then err?
Renderer_rebuild_resurrected(r) ==
    CASE r.st = "ok" -> Rb("ok", r.W, SomeOk, "", "")
      [] r.st = "err" -> Rb("err", r.W, SomeErr(r.sw), r.variant, r.err)
      [] r.st = "panic" ->
            Rb("panic", ArcDropAll(r.W, RendererStem_fields), None, "", r.err)

\* rebuild at frond.or_else: t holds the swapchain of a frond that is not Ok
Renderer_rebuild_or_else(W, area, sf, t) ==
    IF t.st = "panic"
    THEN Rb("panic", ArcDropAll(t.W, RendererStem_fields), None, "", t.err)
    ELSE IF ~(sf.tag = "Err" \/ SharedFrond_needs_resizing(W, area))
    THEN Rb("ok", W, SomeOk, "", "")
    ELSE Renderer_rebuild_resurrected(RendererFrond_resurrect(t.W, area, t.sw))

\* a match that writes the new area into the frond it holds
Renderer_rebuild_match_InPlace(W, area, sf) ==
    Rb("ok", [W EXCEPT !.heap["SharedFrond"].f.resolution = area], SomeOk, "", "")

\* the match arm `Ok(frond) if frond.shared.needs_resizing()`: W is the
\* world once the guard has been evaluated
Renderer_rebuild_match(W, area, sf) ==
    Renderer_rebuild_or_else(W, area, sf,
        IF SharedFrond_needs_resizing(W, area)
        THEN RendererFrond_take_swapchain(W)
        ELSE Out("ok", W, "", "", sf.swapchain))

\* a match that draws with a frond without asking whether it needs resizing
Renderer_rebuild_frond_Unchecked(W, area, sf) ==
    IF sf.tag = "Ok" THEN Rb("ok", W, SomeOk, "", "")
    ELSE Renderer_rebuild_or_else(W, area, sf, Out("ok", W, "", "", sf.swapchain))

\* rebuild from the match on needs_resizing on: the guard is evaluated for
\* an Ok frond only
Renderer_rebuild_frond(W, area, sf) ==
    IF sf.tag = "Ok"
    THEN Renderer_rebuild_match(Note(W, "needs_resizing"), area, sf)
    ELSE Renderer_rebuild_or_else(W, area, sf, Out("ok", W, "", "", sf.swapchain))

\* the None branch after RendererFrond::new returned f
Renderer_rebuild_new_frond(f, area) ==
    IF f.st # "ok"
    THEN Rb(f.st, ArcDropAll(f.W, RendererStem_fields), None, f.variant, f.err)
    ELSE Renderer_rebuild_frond(f.W, area, SomeOk)

\* the None branch after RendererStem::new returned s
Renderer_rebuild_new_stem(s, area) ==
    IF s.st # "ok" THEN Rb(s.st, s.W, None, s.variant, s.err)
    ELSE Renderer_rebuild_new_frond(RendererFrond_new(s.W, area), area)

Renderer_rebuild(W, area, sf) ==
    IF sf.tag = "None"
    THEN Renderer_rebuild_new_stem(RendererStem_new(W), area)
    ELSE Renderer_rebuild_frond(W, area, sf)

\* Renderer::lose_device
Renderer_lose_device(W, sf) == [W |-> DropStemAndFrond(W, sf), sf |-> None]

\* the value returned by Renderer::draw
Ret(tag, val, variant, err) == [tag |-> tag, val |-> val, variant |-> variant, err |-> err]
NoResult == Ret("None", FALSE, "", "")
NoInput == << 0, "ERROR_DEVICE_LOST", FALSE, FALSE >>

\* a test for the wrong error code
IsDeviceLost_OutOfMemory(err) == err = "ERROR_OUT_OF_DEVICE_MEMORY"

\* which frame errors make draw() call lose_device
IsDeviceLost(err) == err = "ERROR_DEVICE_LOST"

DrawOut(W, sf, ret, lost) == [W |-> W, sf |-> sf, ret |-> ret, lost |-> lost]

\* draw() after lose_device returned l
Renderer_draw_lost(l, err) ==
    DrawOut(l.W, l.sf, Ret("Err", FALSE, "VkError", err), TRUE)

\* draw() after frond.draw() returned d
Renderer_draw_frame(rb, d) ==
    IF d.st = "ok"
    THEN DrawOut(d.W, rb.sf, Ret("Ok", d.val, "", ""), FALSE)
    ELSE IF d.st = "blocked"
    THEN DrawOut(d.W, rb.sf, Ret("Blocked", FALSE, "", ""), FALSE)
    ELSE IF IsDeviceLost(d.err)
    THEN Renderer_draw_lost(Renderer_lose_device(d.W, rb.sf), d.err)
    ELSE DrawOut(d.W, rb.sf, Ret("Err", FALSE, "VkError", d.err), FALSE)

\* draw() after rebuild() returned rb
Renderer_draw_rebuilt(rb, suboptimal_acquire, suboptimal_present) ==
    CASE rb.st = "panic" -> DrawOut(rb.W, rb.sf, Ret("Panic", FALSE, "", rb.err), FALSE)
      [] rb.st = "err" ->
            IF rb.variant = "FrondCreationError" /\ rb.err = "NoSurfaceArea"
            THEN DrawOut(rb.W, rb.sf, Ret("Ok", FALSE, "", ""), FALSE)
            ELSE DrawOut(rb.W, rb.sf, Ret("Err", FALSE, rb.variant, rb.err), FALSE)
      [] rb.st = "ok" ->
            Renderer_draw_frame(rb,
                RendererFrond_draw(rb.W, suboptimal_acquire, suboptimal_present))

Renderer_draw(W, area, sf, suboptimal_acquire, suboptimal_present) ==
    Renderer_draw_rebuilt(Renderer_rebuild(W, area, sf),
                          suboptimal_acquire, suboptimal_present)

\* ----------------------------------------------------------------- state
VARIABLES
    area,            \* window.inner_size()
    phase,           \* event loop: "events" (polling) or "redraw"; "panicked"
    frame,           \* number of draw() calls made
    alive,           \* native handles created and not destroyed
    bad,             \* handles passed to a destroy call while not alive
    heap,            \* the reference-counted objects and their fields
    stem_and_frond,  \* Renderer::stem_and_frond
    log,             \* API calls of the last draw() or drop, in order
    result,          \* value returned by the draw() just made
    lost,            \* history: the last draw() called lose_device
    input,           \* the inputs of the call just made
    dropped,         \* the Renderer has been dropped
    fence,           \* state of the stem's presentation fence, "none" without a stem
    semaphore        \* state of the stem's image-acquired semaphore, likewise

vars == << area, phase, frame, alive, bad, heap, stem_and_frond, log, result, lost,
           input, dropped, fence, semaphore >>

World(failAt, err) ==
    [alive |-> alive, bad |-> bad, log |-> << >>, n |-> 0, failAt |-> failAt,
     err |-> err, frame |-> frame + 1, heap |-> heap, fence |-> fence,
     semaphore |-> semaphore]

\* the window exists, Renderer::new has not been called
Init ==
    /\ area = <<1, 1>>
    /\ phase = "new"
    /\ frame = 0
    /\ alive = {}
    /\ bad = {}
    /\ heap = [t \in Types |-> NoObj]
    /\ stem_and_frond = None
    /\ log = << >>
    /\ result = NoResult
    /\ lost = FALSE
    /\ input = NoInput
    /\ dropped = FALSE
    /\ fence = "none"
    /\ semaphore = "none"

\* the inputs of Renderer::new: which call fails and how, or none
NewInputs ==
    { << 0, NoInput[2], FALSE, FALSE >> }
    \cup { << k, e, FALSE, FALSE >> :
             k \in 1..Len(SelectSeq(SharedCrown_new_steps, Fallible)), e \in ApiErrors }

\* Renderer::new returns r; main unwraps the result
NewReturns(r) ==
    /\ alive' = r.W.alive
    /\ bad' = r.W.bad
    /\ heap' = r.W.heap
    /\ log' = r.W.log
    /\ result' = IF r.st = "ok" THEN NoResult ELSE Ret("Err", FALSE, r.variant, r.err)
    /\ phase' = IF r.st = "ok" THEN "events" ELSE "failed"

\* main: Renderer::new(window).unwrap()
NewRenderer ==
    /\ phase = "new"
    /\ \E in \in NewInputs :
         /\ NewReturns(Renderer_new([World(in[1], in[2]) EXCEPT !.frame = 0]))
         /\ input' = in
    /\ UNCHANGED << area, frame, stem_and_frond, lost, dropped, fence, semaphore >>

\* the event loop between two redraws: the window may be resized
WindowEvents(a) ==
    /\ phase = "events" /\ ~dropped
    /\ area' = a
    /\ phase' = "redraw"
    /\ log' = << >>
    /\ result' = NoResult
    /\ input' = NoInput
    /\ UNCHANGED << frame, alive, bad, heap, stem_and_frond, lost, dropped, fence,
                    semaphore >>

\* the number of fallible API calls draw() makes from this state when none fails
CallsThisDraw ==
    Renderer_draw(World(0, NoInput[2]), area, stem_and_frond, FALSE, FALSE).W.n

\* the inputs of one draw(): which call fails and how, or none and whether
\* acquire and present report suboptimal
DrawInputs ==
    { << 0, NoInput[2], a, p >> : a \in BOOLEAN, p \in BOOLEAN }
    \cup { << k, e, FALSE, FALSE >> : k \in 1..CallsThisDraw, e \in ApiErrors }

\* draw() returns d to its caller.  main.rs unwraps the result; here the
\* caller may go on calling draw() after an Err, as the Renderer allows
DrawReturns(d) ==
    /\ alive' = d.W.alive
    /\ bad' = d.W.bad
    /\ heap' = d.W.heap
    /\ log' = d.W.log
    /\ stem_and_frond' = d.sf
    /\ result' = d.ret
    /\ lost' = d.lost
    /\ fence' = IF d.W.heap["SharedStem"].rc = 0 THEN "none" ELSE d.W.fence
    /\ semaphore' = IF d.W.heap["SharedStem"].rc = 0 THEN "none" ELSE d.W.semaphore
    /\ phase' = CASE d.ret.tag = "Panic" -> "panicked"
                  [] d.ret.tag = "Blocked" -> "blocked"
                  [] OTHER -> "events"

Draw ==
    /\ phase = "redraw" /\ ~dropped /\ frame < MaxFrames
    /\ \E in \in DrawInputs :
         /\ DrawReturns(Renderer_draw(World(in[1], in[2]), area, stem_and_frond,
                                     in[3], in[4]))
         /\ input' = in
    /\ frame' = frame + 1
    /\ UNCHANGED << area, dropped >>

\* dropping the Renderer: crown field first, then stem_and_frond
DropReturns(W) ==
    /\ alive' = W.alive
    /\ bad' = W.bad
    /\ heap' = W.heap
    /\ log' = W.log

DropRenderer ==
    /\ ~dropped /\ phase \in {"events", "redraw", "panicked"}
    /\ DropReturns(DropStemAndFrond(ArcDrop(World(0, NoInput[2]), "SharedCrown"),
                                    stem_and_frond))
    /\ stem_and_frond' = None
    /\ dropped' = TRUE
    /\ fence' = "none"
    /\ semaphore' = "none"
    /\ UNCHANGED << area, phase, frame, result, lost, input >>

Next ==
    \/ NewRenderer
    \/ \E a \in Areas : WindowEvents(a)
    \/ Draw
    \/ DropRenderer

Spec == Init /\ [][Next]_vars

\* ------------------------------------------- the selection functions alone
\* Iterator::position and the index of Iterator::find: s[i] tells whether
\* element i satisfies the predicate; the first such place, counted from 1,
\* 0 for None
Position(s) ==
    IF \E i \in 1..Len(s) : s[i]
    THEN CHOOSE i \in 1..Len(s) : s[i] /\ \A j \in 1..(i - 1) : ~s[j]
    ELSE 0

Option(some, physical_device, graphics, present) ==
    [some |-> some, physical_device |-> physical_device,
     graphics |-> graphics, present |-> present]

\* A physical device is the sequence of its queue families; graphics:
\* queue_flags contains GRAPHICS, present: get_physical_device_surface_support.
\* Devices and families are counted from 1.
graphics_queue(queue_families) ==
    Position([f \in 1..Len(queue_families) |-> queue_families[f].graphics])
present_queue(queue_families) ==
    Position([f \in 1..Len(queue_families) |-> queue_families[f].present])

\* SharedStem::select_physical_device_and_queue_families from device d on,
\* every API call succeeding: the first present-capable family of a device
\* ends the search with graphics_queue.map(..)
RECURSIVE select_physical_device_and_queue_families(_, _)
select_physical_device_and_queue_families(devices, d) ==
    IF d > Len(devices) THEN Option(FALSE, 0, 0, 0)
    ELSE IF present_queue(devices[d]) # 0
    THEN IF graphics_queue(devices[d]) # 0
         THEN Option(TRUE, d, graphics_queue(devices[d]), present_queue(devices[d]))
         ELSE Option(FALSE, 0, 0, 0)
    ELSE select_physical_device_and_queue_families(devices, d + 1)

\* create_device_and_queues: .ok_or(NoAcceptableDeviceError)
create_device_and_queues(devices) ==
    IF select_physical_device_and_queue_families(devices, 1).some
    THEN [tag |-> "Ok", val |-> select_physical_device_and_queue_families(devices, 1)]
    ELSE [tag |-> "Err", val |-> "NoAcceptableDeviceError"]

\* a bit test that counts the bits from 1
BitSet_FromOne(bits, index) == (bits \div 2 ^ (index + 1)) % 2 = 1

\* (1 << index) & bits != 0
BitSet(bits, index) == (bits \div 2 ^ index) % 2 = 1

\* util::select_memory_type: memory_types is the whole array, of which the
\* first memory_type_count entries are searched; the index is counted from 0
select_memory_type(memory_properties, memory_type_bits, required_flags) ==
    Position([i \in 1..memory_properties.memory_type_count |->
                 /\ BitSet(memory_type_bits, i - 1)
                 /\ memory_properties.memory_types[i] \cap required_flags
                      = required_flags]) - 1

SeqsUpTo(S, n) == UNION { [1..k -> S] : k \in 0..n }

\* what the instance enumerates
QueueFamilyInfos == [graphics : BOOLEAN, present : BOOLEAN]
PhysicalDeviceLists == SeqsUpTo(SeqsUpTo(QueueFamilyInfos, MaxFamilies), MaxDevices)

MemoryPropertyFlags == SUBSET {"DEVICE_LOCAL", "HOST_VISIBLE"}
MemoryProperties ==
    [memory_type_count : 0..MaxMemoryTypes,
     memory_types : [1..MaxMemoryTypes -> MemoryPropertyFlags]]
MemoryTypeInputs ==
    [memory_properties : MemoryProperties,
     memory_type_bits : 0..(2 ^ MaxMemoryTypes - 1),
     required_flags : MemoryPropertyFlags]

\* what the surface reports: image counts up to the bound, and the largest
\* u32 as a maximum
SurfaceCapabilities ==
    [min_image_count : 0..MaxImageCount,
     max_image_count : 0..(MaxImageCount + 1) \cup {U32Max}]

\* u32 addition as the release build computes it
U32Add(a, b) == (a + b) % (U32Max + 1)

\* u32::min
U32Min(a, b) == IF a <= b THEN a ELSE b

\* a maximum that takes the reported 0 for a count
max_image_count_ZeroKept(surface_capabilities) ==
    surface_capabilities.max_image_count

\* create_swapchain: a reported maximum of 0 stands for no limit
max_image_count(surface_capabilities) ==
    IF surface_capabilities.max_image_count = 0
    THEN U32Max
    ELSE surface_capabilities.max_image_count

\* create_swapchain: the image count it puts in the create info
min_image_count(surface_capabilities) ==
    U32Min(U32Add(surface_capabilities.min_image_count, 1),
           max_image_count(surface_capabilities))

\* no Renderer: only input, result and phase are in use
NoRenderer ==
    /\ area = <<1, 1>> /\ frame = 0 /\ alive = {} /\ bad = {}
    /\ heap = [t \in Types |-> NoObj] /\ stem_and_frond = None
    /\ log = << >> /\ lost = FALSE /\ dropped = FALSE /\ fence = "none"
    /\ semaphore = "none"

SelectInit ==
    /\ NoRenderer
    /\ result = NoResult
    /\ \/ phase = "select_physical_device" /\ input \in PhysicalDeviceLists
       \/ phase = "select_memory_type" /\ input \in MemoryTypeInputs
       \/ phase = "select_image_count" /\ input \in SurfaceCapabilities

SelectPhysicalDevice ==
    /\ phase = "select_physical_device"
    /\ result' = create_device_and_queues(input)
    /\ phase' = "selected_physical_device"
    /\ UNCHANGED << area, frame, alive, bad, heap, stem_and_frond, log, lost, input,
                    dropped, fence, semaphore >>

SelectMemoryType ==
    /\ phase = "select_memory_type"
    /\ result' = select_memory_type(input.memory_properties, input.memory_type_bits,
                                    input.required_flags)
    /\ phase' = "selected_memory_type"
    /\ UNCHANGED << area, frame, alive, bad, heap, stem_and_frond, log, lost, input,
                    dropped, fence, semaphore >>

SelectImageCount ==
    /\ phase = "select_image_count"
    /\ result' = min_image_count(input)
    /\ phase' = "selected_image_count"
    /\ UNCHANGED << area, frame, alive, bad, heap, stem_and_frond, log, lost, input,
                    dropped, fence, semaphore >>

SelectNext == SelectPhysicalDevice \/ SelectMemoryType \/ SelectImageCount

SelectSpec == SelectInit /\ [][SelectNext]_vars

\* ------------------------------------------------------------ properties
\* the three states of Renderer::stem_and_frond
Live == stem_and_frond.tag = "Ok"
Retiring == stem_and_frond.tag = "Err"
NoDevice == stem_and_frond.tag = "None"

\* this step is one call of Renderer::draw
DrawStep == frame' = frame + 1

\* a draw() has just returned to the event loop
AfterDraw == phase = "events" /\ ~dropped /\ result.tag # "None"

\* the drawable area has a zero width or height
ZeroArea == area[1] = 0 \/ area[2] = 0

CrownHandles == { H("instance", 0), H("debug_utils_messenger", 0), H("surface", 0) }
StemAndFrondTypes == Types \ {"SharedCrown"}

CreatedIn(l) == { e.h : e \in { x \in Range(l) : x.op = "create" } }
DestroyedIn(l) == { e.h : e \in { x \in Range(l) : x.op = "destroy" /\ x.h # NULL } }
Called(l, name) == Ev("call", H(name, 0)) \in Range(l)
TimesDestroyed(l, h) == Cardinality({ i \in 1..Len(l) : l[i] = Ev("destroy", h) })

\* the handles an object destroys when it is dropped
HandlesOf(t, o) == Range(DropHandles(t, o)) \ {NULL}

\* the swapchain handle rebuild() hands to resurrect: the retired one, or
\* the one taken from the frond that needs resizing
RetiredHandle ==
    IF Retiring THEN stem_and_frond.swapchain
    ELSE IF Live THEN heap["SharedFrond"].f.swapchain
    ELSE NULL

\* this draw() reaches SharedFrondSwapchain::resurrect
ResurrectAttempted ==
    /\ DrawStep
    /\ Retiring \/ (Live /\ heap["SharedFrond"].f.resolution # area)

\* C1: over any sequence of draw() calls with area changes and injected
\* API failures, followed by dropping the Renderer, no non-null native
\* handle is ever passed to a destroy call while it is not alive, that is,
\* no handle is destroyed more than once.
C1_NoDoubleDestroy == bad = {}

\* C1 case: the Renderer is dropped after at least two draws, and the drop
\* destroys a swapchain
C1_Witness ==
    /\ dropped /\ frame >= 2
    /\ \E h \in DestroyedIn(log) : h[1] = "swapchain"

\* C2: when resurrect succeeds, the retired swapchain handle that was
\* passed as the old swapchain is destroyed exactly once during that
\* construction and is not left alive.
C2_RetiredHandleDestroyed ==
    [][ResurrectAttempted /\ stem_and_frond'.tag = "Ok"
         => /\ TimesDestroyed(log', RetiredHandle) = 1
            /\ RetiredHandle \notin alive']_vars

C4_PreviousSwapchainKept ==
    [][ResurrectAttempted
         => /\ \A i \in 1..Len(log') :
                 log'[i] = Ev("destroy", RetiredHandle)
                   => \E j \in 1..(i - 1) :
                         log'[j] = Ev("new", H("SharedFrond", frame'))
            /\ stem_and_frond'.tag = "Err"
                 => /\ stem_and_frond'.swapchain # NULL
                    /\ stem_and_frond'.swapchain \in alive']_vars

\* C4 case: a frond rebuilt on an older stem from a previous swapchain
C4_Witness ==
    /\ AfterDraw /\ Live
    /\ Ev("new", H("SharedFrond", frame)) \in Range(log)
    /\ heap["SharedStem"].f.id < frame
    /\ heap["SharedFrond"].f.swapchain \in alive

\* C5: whenever draw() returns the device-lost error, from whichever API
\* call of the draw it came, the Renderer is in NoDevice on return: the
\* stem, the frond and all pass objects have been dropped.
C5_DeviceLostMeansNoDevice ==
    AfterDraw /\ result.tag = "Err" /\ result.err = "ERROR_DEVICE_LOST"
      => /\ NoDevice
         /\ \A t \in StemAndFrondTypes : heap[t].rc = 0

\* the draw() just made failed with device-lost at queue_submit
SubmitDeviceLost ==
    /\ AfterDraw
    /\ input[1] > 0 /\ input[2] = "ERROR_DEVICE_LOST"
    /\ Called(log, "queue_submit") /\ ~Called(log, "queue_present")

\* C6: a device-lost error from queue_submit makes that draw() report the
\* error and drop the SharedStem, the SharedFrond and every pass object,
\* keeping the SharedCrown; the next draw() panics in no case, keeps the
\* same SharedCrown, builds a SharedStem and SharedFrond when nothing
\* fails and the area is non-zero, and every handle of the objects it
\* leaves behind was created by that draw().
C6_DeviceLostAtSubmit ==
    [][DrawStep =>
         /\ SubmitDeviceLost' =>
               /\ result' = Ret("Err", FALSE, "VkError", "ERROR_DEVICE_LOST")
               /\ NoDevice' /\ lost'
               /\ \A t \in StemAndFrondTypes : heap'[t].rc = 0
               /\ heap'["SharedCrown"] = [rc |-> 1, f |-> heap["SharedCrown"].f]
               /\ CrownHandles \subseteq alive'
               /\ \A h \in alive' \ CrownHandles : h[1] = "swapchain"
         /\ lost =>
               /\ result'.tag # "Panic"
               /\ heap'["SharedCrown"].f = heap["SharedCrown"].f
               /\ CrownHandles \subseteq alive'
               /\ input'[1] = 0 /\ ~ZeroArea
                    => Live' /\ \A t \in StemAndFrondTypes : heap'[t].rc > 0
               /\ \A t \in StemAndFrondTypes :
                    heap'[t].rc > 0
                      => HandlesOf(t, heap'[t].f) \subseteq CreatedIn(log')]_vars

\* C6 case: device-lost at queue_submit has torn the stem and frond down
C6_Witness == SubmitDeviceLost /\ NoDevice /\ frame >= 1

\* C7: in Retiring with a zero drawable area, every draw() returns
\* Ok(false), creates no native handle, destroys none, and leaves the
\* Renderer in Retiring holding the same retired swapchain handle.
C7_RetiringZeroAreaIsIdle ==
    [][DrawStep /\ Retiring /\ ZeroArea
         => /\ result' = Ret("Ok", FALSE, "", "")
            /\ CreatedIn(log') = {} /\ DestroyedIn(log') = {}
            /\ alive' = alive
            /\ stem_and_frond' = stem_and_frond
            /\ stem_and_frond.swapchain \in alive']_vars

\* C7 case: a draw() made in Retiring with a zero area has returned
C7_Witness ==
    /\ AfterDraw /\ Retiring /\ ZeroArea
    /\ log = << >>
    /\ result = Ret("Ok", FALSE, "", "")

\* C8: from Live, the draw() that sees a zero drawable area retires the
\* frond, keeps its swapchain and returns Ok(false); from Retiring, the
\* draw() that sees a non-zero area while every API call succeeds
\* resurrects the frond at that area, leaves the Renderer Live and submits
\* and presents the frame.
C8_RetireThenResurrect ==
    [][DrawStep =>
         /\ Live /\ ZeroArea
              => /\ Retiring'
                 /\ result' = Ret("Ok", FALSE, "", "")
                 /\ stem_and_frond'.swapchain = heap["SharedFrond"].f.swapchain
                 /\ stem_and_frond'.swapchain \in alive'
                 /\ heap'["SharedFrond"].rc = 0
                 /\ heap'["SharedStem"] = heap["SharedStem"]
         /\ Retiring /\ ~ZeroArea /\ input'[1] = 0
              => /\ Live'
                 /\ heap'["SharedFrond"].f.resolution = area
                 /\ heap'["SharedStem"] = heap["SharedStem"]
                 /\ Called(log', "queue_submit") /\ Called(log', "queue_present")
                 /\ result'.tag = "Ok"]_vars

\* the draw() just made submitted and presented a frame
Presented ==
    input[1] = 0 /\ Called(log, "queue_submit") /\ Called(log, "queue_present")

\* the draw() just made ran into the NoSurfaceArea condition
Skipped ==
    input[1] = 0 /\ ZeroArea /\ ~Called(log, "queue_submit")

\* C9: draw() returns Ok(true) exactly when a frame was submitted and
\* presented, also when acquire or present reported suboptimal, Ok(false)
\* exactly when nothing was submitted because of the NoSurfaceArea
\* condition, and an error otherwise.
C9_ReturnValue ==
    AfterDraw =>
      /\ (result.tag = "Ok" /\ result.val) <=> Presented
      /\ (result.tag = "Ok" /\ ~result.val) <=> Skipped
      /\ result.tag = "Err" <=> (~Presented /\ ~Skipped)

\* C10: a SharedStem that was constructed is dropped only by a draw() that
\* observes device-lost or by dropping the Renderer.
C10_StemDroppedOnlyOnDeviceLost ==
    [][Ev("drop", H("SharedStem", 0)) \in Range(log')
         => \/ dropped'
            \/ result'.tag = "Err" /\ result'.err = "ERROR_DEVICE_LOST"]_vars

\* the devices that have a graphics-capable and a present-capable family
Acceptable(devices) ==
    { d \in 1..Len(devices) :
        /\ \E f \in 1..Len(devices[d]) : devices[d][f].graphics
        /\ \E f \in 1..Len(devices[d]) : devices[d][f].present }

\* C11: the device selected is the first enumerated device that has a
\* graphics-capable and a present-capable queue family, with a family of
\* each kind, and the selection fails with NoAcceptableDeviceError exactly
\* when no enumerated device has both.
C11_FirstAcceptableDevice ==
    phase = "selected_physical_device" =>
      /\ result.tag = "Err" <=> Acceptable(input) = {}
      /\ result.tag = "Err" => result.val = "NoAcceptableDeviceError"
      /\ result.tag = "Ok" =>
            /\ result.val.physical_device \in Acceptable(input)
            /\ \A d \in Acceptable(input) : result.val.physical_device <= d
            /\ input[result.val.physical_device][result.val.graphics].graphics
            /\ input[result.val.physical_device][result.val.present].present

\* the handles created, and the handles destroyed, by a log, in order
CreatedSeq(l) ==
    [i \in 1..Len(SelectSeq(l, LAMBDA e : e.op = "create")) |->
        SelectSeq(l, LAMBDA e : e.op = "create")[i].h]
DestroyedSeq(l) ==
    [i \in 1..Len(SelectSeq(l, LAMBDA e : e.op = "destroy")) |->
        SelectSeq(l, LAMBDA e : e.op = "destroy")[i].h]

\* the kinds of handle a constructor creates, in order
KindsOf(steps) ==
    [i \in 1..Len(SelectSeq(steps, Creates)) |-> SelectSeq(steps, Creates)[i].k]

\* the create call of kind k failed during the call just made
CreateFailed(l, k) == Ev("call", H(k, 0)) \in Range(l)

\* the constructor with these steps failed at its create call number k in
\* the call that wrote log l: the handles of creates 1..k-1, numbered f, were
\* created, were then destroyed in reverse order, and nothing else was
UnwoundAt(l, steps, k, f) ==
    /\ CreatedSeq(l) = [i \in 1..(k - 1) |-> H(KindsOf(steps)[i], f)]
    /\ DestroyedSeq(l) = Reverse(CreatedSeq(l))
    /\ \A i, j \in 1..Len(l) :
          l[i].op = "create" /\ l[j].op = "destroy" => i < j

\* C12: when the k-th handle-creating step of SharedCrown::new or of
\* SharedStem::new fails, exactly the handles created by the steps 1..k-1
\* are destroyed, once each and in reverse order of creation, before the
\* error is returned, and nothing else is destroyed.
C12_ConstructorUnwinds ==
    [][/\ \A k \in 1..Len(KindsOf(SharedCrown_new_steps)) :
            phase = "new" /\ CreateFailed(log', KindsOf(SharedCrown_new_steps)[k])
              => /\ UnwoundAt(log', SharedCrown_new_steps, k, 0)
                 /\ alive' = alive /\ result'.tag = "Err"
       /\ \A k \in 1..Len(KindsOf(SharedStem_new_steps)) :
            DrawStep /\ CreateFailed(log', KindsOf(SharedStem_new_steps)[k])
              => /\ UnwoundAt(log', SharedStem_new_steps, k, frame')
                 /\ alive' = alive /\ result'.tag = "Err"]_vars

\* C12 case: SharedStem::new has failed at the creation of the fence, its
\* fifth handle
C12_Witness ==
    /\ AfterDraw /\ result.tag = "Err"
    /\ CreateFailed(log, "presentation_fence")
    /\ Len(DestroyedSeq(log)) = 4

\* the calls that cannot fail or whose result is ignored
NoteNames ==
    {"surface.lock", "surface.unlock", "get_image_memory_requirements", "device_wait_idle",
     "geometry.draw", "lighting.draw", "tonemapping.draw", "needs_resizing"}

\* the place in log l of its n-th fallible call, 0 when there is none
FallibleAt(l, n) ==
    IF n >= 1 /\ n <= Len(SelectSeq([i \in 1..Len(l) |-> i],
                                    LAMBDA i : /\ l[i].op \in {"call", "create"}
                                               /\ l[i].h[1] \notin NoteNames))
    THEN SelectSeq([i \in 1..Len(l) |-> i],
                   LAMBDA i : /\ l[i].op \in {"call", "create"}
                              /\ l[i].h[1] \notin NoteNames)[n]
    ELSE 0

\* the last handle created in l before place i, NULL when there is none
LastCreated(l, i) ==
    LET made == CreatedSeq(SubSeq(l, 1, i - 1))
    IN  IF made = << >> THEN NULL ELSE made[Len(made)]

ImageNames == {"diffuse", "normal", "depth_stencil", "shadow", "light"}

\* the call at place i of l failed inside Image::new of image x, after the
\* image itself had been created; last is the last handle created before it
FailedInImageNew(l, i, x, f, last) ==
    /\ i > 0
    /\ last \in {H(x \o ".image", f), H(x \o ".memory", f)}
    /\ l[i] \in {Ev("call", H("select_memory_type", 0)), Ev("call", H(x \o ".memory", 0)),
                 Ev("call", H("bind_image_memory", 0)), Ev("call", H(x \o ".view", 0))}

\* C13: Image::new is all-or-nothing.  When it fails at the memory-type
\* selection, the allocation, the binding or the view creation, the handles
\* it has created are destroyed at once, memory before image, exactly once
\* each; a rejection by the selector is returned as the selector's own
\* error, not an API error, and no memory has been allocated.  When the
\* images of a SharedFrond have been built and it lives on, each image owns
\* its image, memory and view.
C13_ImageNewAllOrNothing ==
    [][DrawStep =>
         /\ input'[1] > 0 =>
              LET i == FallibleAt(log', input'[1])
                  made == CreatedIn(log')
                  last == LastCreated(log', i)
              IN  \A x \in ImageNames :
                    FailedInImageNew(log', i, x, frame', last)
                      => LET image == H(x \o ".image", frame')
                             memory == H(x \o ".memory", frame')
                         IN  /\ SubSeq(log', i + 1,
                                       i + Cardinality({image, memory} \cap made))
                                  = IF memory \in made
                                    THEN << Ev("destroy", memory), Ev("destroy", image) >>
                                    ELSE << Ev("destroy", image) >>
                             /\ \A h \in {image, memory} \cap made :
                                   TimesDestroyed(log', h) = 1 /\ h \notin alive'
                             /\ H(x \o ".view", frame') \notin made
                             /\ result'.tag = "Err"
                             /\ log'[i] = Ev("call", H("select_memory_type", 0))
                                  => /\ result'.err = "NoAcceptableMeoryType"
                                     /\ result'.err \notin ApiErrors
                                     /\ memory \notin made
                             /\ log'[i] # Ev("call", H("select_memory_type", 0))
                                  => result'.err = input'[2]
         /\ Ev("new", H("SharedFrond", frame')) \in Range(log') /\ heap'["SharedFrond"].rc > 0
              => \A x \in ImageNames :
                   {H(x \o ".image", frame'), H(x \o ".memory", frame'), H(x \o ".view", frame')}
                     \subseteq alive' \cap HandlesOf("SharedFrond", heap'["SharedFrond"].f)]_vars

\* C13 case: Image::new of the light image has failed after allocating the
\* memory
C13_Witness ==
    /\ AfterDraw /\ result.tag = "Err" /\ input[1] > 0
    /\ H("light.memory", frame) \in CreatedIn(log)
    /\ H("light.view", frame) \notin CreatedIn(log)
    /\ H("light.memory", frame) \notin alive

\* the kinds of handle held by sequence guards
SequenceKinds == {"swapchain_image_view", "tonemapping.framebuffer"}

\* C14: a sequence guard dropped after k push calls destroys exactly the k
\* elements pushed, once each.  When the create call of element k+1 fails in
\* create_swapchain_image_views (or in create_framebuffers), the k elements
\* already pushed are the next k handles destroyed, each is destroyed once
\* in that draw(), and no element that was not pushed is destroyed.
C14_SequenceGuardDestroysPushed ==
    [][DrawStep /\ input'[1] > 0 =>
         LET i == FallibleAt(log', input'[1])
         IN  \A kind \in SequenceKinds :
               i > 0 /\ log'[i] = Ev("call", H(kind, 0))
                 => LET pushed == { h \in CreatedIn(log') : h[1] = kind }
                        k == Cardinality(pushed)
                    IN  /\ k < NumSwapchainImages
                        /\ pushed = { HI(kind, frame', j) : j \in 1..k }
                        /\ Range(SubSeq(log', i + 1, i + k))
                             = { Ev("destroy", h) : h \in pushed }
                        /\ \A h \in pushed : TimesDestroyed(log', h) = 1
                        /\ \A j \in 1..NumSwapchainImages :
                              HI(kind, frame', j) \in DestroyedIn(log')
                                => HI(kind, frame', j) \in pushed]_vars

\* C14 case: create_swapchain_image_views has failed on its last view, and
\* the views before it are destroyed
C14_Witness ==
    /\ AfterDraw /\ result.tag = "Err"
    /\ CreateFailed(log, "swapchain_image_view")
    /\ HI("swapchain_image_view", frame, NumSwapchainImages - 1) \in DestroyedIn(log)

\* the raw handles held by the objects of the Renderer: what take() has
\* passed to the constructors' callers
OwnedHandles ==
    UNION { HandlesOf(t, heap[t].f) : t \in { x \in Types : heap[x].rc > 0 } }
    \cup (IF Retiring THEN {stem_and_frond.swapchain} ELSE {})

\* C15: for every Guarded value exactly one of two things happens.  Every
\* handle a call of Renderer::new or draw() puts under a guard is either
\* taken, and then no destroy call is made for it by a guard and the raw
\* handle is held by the object built from it, or dropped without take(),
\* and then it is destroyed exactly once; none is destroyed twice, and none
\* is both taken and destroyed.  When no call fails and the area is not
\* empty, every guard is taken.
C15_TakeOrDestroyOnce ==
    [][DrawStep \/ phase = "new" =>
         /\ Len(SelectSeq(log', LAMBDA e : e.op = "destroy" /\ e.h # NULL))
              = Cardinality(DestroyedIn(log'))
         /\ CreatedIn(log') \ DestroyedIn(log') = CreatedIn(log') \cap alive'
         /\ CreatedIn(log') \cap alive' = CreatedIn(log') \cap OwnedHandles'
         /\ input'[1] = 0 /\ ~ZeroArea
               => CreatedIn(log') \cap DestroyedIn(log') = {}]_vars

\* C15 case: in one draw() the guards of SharedFrond::new have been taken,
\* the frond was built from their handles, and the guard of the geometry
\* render pass has been dropped by the failure of the next create call
C15_Witness ==
    /\ AfterDraw /\ result.tag = "Err"
    /\ Ev("new", H("SharedFrond", frame)) \in Range(log)
    /\ CreateFailed(log, "geometry.pipeline")
    /\ TimesDestroyed(log, H("geometry.render_pass", frame)) = 1
    /\ TimesDestroyed(log, H("diffuse.image", frame)) = 1

\* the indices select_memory_type may return: below memory_type_count, with
\* their bit set in the bitmask and every required flag among their flags
Suitable(in) ==
    { i \in 0..(in.memory_properties.memory_type_count - 1) :
        /\ in.memory_type_bits % 2 ^ (i + 1) >= 2 ^ i
        /\ in.required_flags \subseteq in.memory_properties.memory_types[i + 1] }

\* C16: select_memory_type returns the lowest index below memory_type_count
\* whose bit is set in memory_type_bits and whose property flags are a
\* superset of the required flags, and returns none (-1) if and only if
\* there is no such index.
C16_LowestSuitableMemoryType ==
    phase = "selected_memory_type" =>
      /\ result = -1 <=> Suitable(input) = {}
      /\ result # -1 =>
            /\ result \in Suitable(input)
            /\ \A j \in Suitable(input) : result <= j

\* C16 case: type 0 has its bit set but lacks a required flag, and type 1 is
\* selected
C16_Witness ==
    /\ phase = "selected_memory_type"
    /\ result = 1
    /\ input.memory_type_bits % 2 = 1
    /\ ~(input.required_flags \subseteq input.memory_properties.memory_types[1])

\* the calls new_with_swapchain makes up to the creation of the swapchain
SwapchainCalls ==
    {"get_physical_device_surface_formats", "select_surface_format",
     "get_physical_device_surface_capabilities",
     "get_physical_device_surface_present_modes", "create_swapchain",
     "get_swapchain_images"}

\* C17: with a drawable area of zero width or height new_with_swapchain
\* returns NoSurfaceArea before any graphics API call and leaves the
\* caller's swapchain handle unmodified.  In every draw() made with such an
\* area the surface is locked by nothing but SharedStem::new, no surface
\* query is made and no swapchain is created; when a stem exists no call is
\* made but those of dropping the frond, the handle given to
\* new_with_swapchain is the handle kept, still alive, and draw() reports
\* the NoSurfaceArea error as Ok(false).
C17_ZeroAreaBeforeAnyCall ==
    [][DrawStep /\ ZeroArea =>
         /\ \A i \in 1..Len(log') :
               log'[i] = Ev("call", H("surface.lock", 0)) => NoDevice /\ i = 1
         /\ \A k \in SwapchainCalls : ~Called(log', k)
         /\ \A h \in CreatedIn(log') : h[1] # "swapchain"
         /\ ~NoDevice =>
               /\ result' = Ret("Ok", FALSE, "", "")
               /\ Retiring' /\ stem_and_frond'.swapchain = RetiredHandle
               /\ RetiredHandle \in alive'
               /\ \A e \in Range(log') :
                     e.op \in {"call", "create"}
                       => e.h[1] \in {"device_wait_idle", "needs_resizing"}
               /\ LET o == new_with_swapchain(World(0, NoInput[2]), area, RetiredHandle)
                  IN  /\ o.st = "err" /\ o.variant = "FrondCreationError"
                      /\ o.err = "NoSurfaceArea"
                      /\ o.sw = RetiredHandle
                      /\ o.W.log = << >> /\ o.W.n = 0
                      /\ o.W.alive = alive /\ o.W.heap = heap
         /\ NoDevice /\ input'[1] = 0 =>
               result' = Ret("Ok", FALSE, "", "") /\ NoDevice']_vars

\* C17 case: a draw() has retired the live frond for a zero area and
\* new_with_swapchain has refused to build the next one
C17_Witness ==
    /\ AfterDraw /\ ZeroArea /\ Retiring
    /\ Ev("drop", H("SharedFrond", 0)) \in Range(log)
    /\ result = Ret("Ok", FALSE, "", "")
    /\ stem_and_frond.swapchain \in alive

FrondTypes == {"SharedFrond", "GeometryFrond", "LightingFrond", "TonemappingFrond"}

\* the images, image views and pass resources of the live frond: every
\* handle it holds but its swapchain
AuxiliaryHandles ==
    UNION { HandlesOf(t, heap[t].f) : t \in FrondTypes }
    \ {heap["SharedFrond"].f.swapchain}

\* C18: retiring a live frond (a draw() that finds the resolution changed)
\* drops the three pass fronds and the SharedFrond, destroys each of their
\* images, image views and pass resources once, and does not destroy the
\* swapchain handle: the handle stays alive, it is the handle of the
\* resulting SharedFrondSwapchain unless resurrect has replaced it by a new
\* swapchain, and the SharedFrondSwapchain holds the SharedFrond's reference
\* to the same SharedStem, which is not dropped.
C18_RetireKeepsSwapchain ==
    [][DrawStep /\ Live /\ heap["SharedFrond"].f.resolution # area =>
         /\ \A t \in FrondTypes : Ev("drop", H(t, 0)) \in Range(log')
         /\ AuxiliaryHandles \cap alive' = {}
         /\ AuxiliaryHandles \subseteq DestroyedIn(log')
         /\ Len(SelectSeq(log', LAMBDA e : e.op = "destroy" /\ e.h # NULL))
              = Cardinality(DestroyedIn(log'))
         /\ heap["SharedFrond"].f.swapchain \notin DestroyedIn(log')
         /\ heap["SharedFrond"].f.swapchain \in alive'
         /\ Retiring' =>
               /\ heap'["SharedStem"] = heap["SharedStem"]
               /\ Ev("drop", H("SharedStem", 0)) \notin Range(log')
               /\ H("swapchain", frame') \notin CreatedIn(log')
                     => stem_and_frond'.swapchain = heap["SharedFrond"].f.swapchain]_vars

\* C18 case: a draw() has retired the live frond of an earlier frame and
\* the surface query of resurrect has failed, so that the retired swapchain
\* is the one taken from the frond
C18_Witness ==
    /\ AfterDraw /\ Retiring /\ ~ZeroArea
    /\ Ev("drop", H("SharedFrond", 0)) \in Range(log)
    /\ CreateFailed(log, "get_physical_device_surface_formats")
    /\ stem_and_frond.swapchain \in alive
    /\ stem_and_frond.swapchain[2] < frame
    /\ heap["SharedStem"].rc = 5

\* C19: a Renderer creates its SharedCrown exactly once, in Renderer::new,
\* and no draw() replaces it: a draw() neither constructs nor drops a
\* SharedCrown, leaves its fields as they were and its surface, debug
\* messenger and instance alive.  Whenever one of these three is destroyed,
\* no device is destroyed after it and no device is left alive.
C19_CrownOnceAndLast ==
    [][/\ DrawStep =>
            /\ Ev("new", H("SharedCrown", frame')) \notin Range(log')
            /\ Ev("drop", H("SharedCrown", 0)) \notin Range(log')
            /\ CrownHandles \cap (CreatedIn(log') \cup DestroyedIn(log')) = {}
            /\ heap'["SharedCrown"].f = heap["SharedCrown"].f
            /\ heap'["SharedCrown"].rc >= 1
            /\ CrownHandles \subseteq alive'
       /\ \A i \in 1..Len(log') :
            log'[i].op = "destroy" /\ log'[i].h \in CrownHandles =>
              /\ \A j \in (i + 1)..Len(log') :
                    ~(log'[j].op = "destroy" /\ log'[j].h[1] = "device")
              /\ \A h \in alive' : h[1] # "device"]_vars

\* C19 case: the Renderer has been dropped after a draw(), its stem has
\* destroyed the device and the crown has destroyed its three handles
C19_Witness ==
    /\ dropped /\ frame >= 1
    /\ \E h \in DestroyedIn(log) : h[1] = "device"
    /\ CrownHandles \subseteq DestroyedIn(log)
    /\ CrownHandles \cap alive = {}

\* C20: the first frame protocol run on a newly constructed SharedStem does
\* not block at the presentation-fence wait.  A draw() that constructs a
\* SharedStem, at start-up or after the previous stem was lost, never ends
\* blocked and finds the fence signaled at every wait it makes; when it
\* leaves the Renderer live it has made that wait.
C20_FirstFrameDoesNotBlock ==
    [][DrawStep /\ Ev("new", H("SharedStem", frame')) \in Range(log') =>
         /\ result'.tag # "Blocked"
         /\ \A e \in Range(log') : e.op = "fence" => e.h = H("signaled", 0)
         /\ Live' => Ev("fence", H("signaled", 0)) \in Range(log')]_vars

\* C20 case: a draw() later than the first has built a new stem and has
\* presented a frame with it, having found the fence signaled
C20_Witness ==
    /\ AfterDraw /\ frame >= 2 /\ Live
    /\ Ev("new", H("SharedStem", frame)) \in Range(log)
    /\ Ev("fence", H("signaled", 0)) \in Range(log)
    /\ result = Ret("Ok", TRUE, "", "")

\* the frame protocol of the specification: each call after the fence,
\* semaphores and queue it is to be given
FrameProtocol ==
    << Ev("fences", H("presentation_fence", 0)), Ev("call", H("wait_for_fences", 0)),
       Ev("fences", H("presentation_fence", 0)), Ev("call", H("reset_fences", 0)),
       Ev("signal", H("image_acquired_semaphore", 0)),
       Ev("call", H("acquire_next_image", 0)),
       Ev("call", H("reset_command_buffer", 0)),
       Ev("call", H("begin_command_buffer", 0)),
       Ev("call", H("geometry.draw", 0)), Ev("call", H("lighting.draw", 0)),
       Ev("call", H("tonemapping.draw", 0)),
       Ev("call", H("end_command_buffer", 0)),
       Ev("wait", H("image_acquired_semaphore", 0)),
       Ev("signal", H("render_complete_semaphore", 0)),
       Ev("queue", H("graphics", 0)),
       Ev("signal", H("presentation_fence", 0)),
       Ev("call", H("queue_submit", 0)),
       Ev("wait", H("render_complete_semaphore", 0)),
       Ev("queue", H("present", 0)),
       Ev("call", H("queue_present", 0)) >>

\* the place of the call named k in log l, 0 when it was not made
CallAt(l, k) ==
    IF Called(l, k) THEN CHOOSE i \in 1..Len(l) : l[i] = Ev("call", H(k, 0)) ELSE 0

\* C21: in every draw() that reaches present, the calls up to present are,
\* in this order: wait for the presentation fence, reset it, acquire the
\* next image signalling the acquire semaphore, reset and begin the command
\* buffer, record geometry, lighting, tonemapping, end the command buffer,
\* submit to the graphics queue waiting on the acquire semaphore and
\* signalling the render-complete semaphore and the presentation fence,
\* present on the present queue waiting on the render-complete semaphore.
\* Each of these calls is made once.
C21_FrameProtocolOrder ==
    [][DrawStep /\ Called(log', "queue_present") =>
         /\ CallAt(log', "queue_present") >= Len(FrameProtocol)
         /\ SubSeq(log', CallAt(log', "queue_present") - Len(FrameProtocol) + 1,
                   CallAt(log', "queue_present")) = FrameProtocol
         /\ \A e \in Range(FrameProtocol) :
               Cardinality({ i \in 1..Len(log') : log'[i] = e })
                 = Cardinality({ i \in 1..Len(FrameProtocol) : FrameProtocol[i] = e })]_vars

\* C21 case: a draw() has presented a frame
C21_Witness ==
    /\ AfterDraw /\ Live /\ result = Ret("Ok", TRUE, "", "")
    /\ Len(log) >= Len(FrameProtocol)
    /\ log[Len(log)] = Ev("call", H("queue_present", 0))
    /\ Ev("wait", H("image_acquired_semaphore", 0)) \in Range(log)

\* what Drop for SharedStem is to do with the stem numbered f, in order
StemTeardown(f) ==
    << Ev("call", H("device_wait_idle", 0)),
       Ev("destroy", H("fullscreen_vert_shader_module", f)),
       Ev("destroy", H("presentation_fence", f)),
       Ev("destroy", H("image_acquired_semaphore", f)),
       Ev("destroy", H("render_complete_semaphore", f)),
       Ev("destroy", H("command_pool", f)),
       Ev("destroy", H("device", f)) >>

\* C22: dropping a SharedStem waits for the device to be idle before it
\* destroys anything, then destroys the fence, the two semaphores and the
\* command pool, and destroys the logical device last.  Wherever a
\* SharedStem is dropped, the calls that follow are the wait, then the
\* destroy calls in that order (the shader module first), none of these
\* handles was destroyed before the wait, and none is left alive.
C22_StemTeardownOrder ==
    [][\A i \in 1..Len(log') :
         log'[i] = Ev("drop", H("SharedStem", 0)) =>
           /\ i + Len(StemTeardown(0)) <= Len(log')
           /\ \E f \in 1..frame' :
                 /\ heap["SharedStem"].rc > 0 => f = heap["SharedStem"].f.id
                 /\ SubSeq(log', i + 1, i + Len(StemTeardown(f))) = StemTeardown(f)
                 /\ \A j \in 1..i : log'[j].op = "destroy" =>
                       log'[j] \notin Range(StemTeardown(f))
                 /\ \A e \in Range(StemTeardown(f)) :
                       e.op = "destroy" => e.h \notin alive']_vars

\* C22 case: a draw() has lost the device and dropped the stem
C22_Witness ==
    /\ AfterDraw /\ NoDevice /\ lost
    /\ Ev("drop", H("SharedStem", 0)) \in Range(log)
    /\ log[Len(log)].h[1] = "device"

\* C23: every presentation-fence wait made by draw() eventually returns.
\* Whenever draw() starts waiting on the fence, the fence is signaled or a
\* submitted batch that will signal it is pending, also in a draw() that
\* follows a frame which failed with an error other than device-lost; no
\* draw() stays blocked in the wait.
C23_FenceWaitReturns ==
    [][DrawStep =>
         /\ \A e \in Range(log') :
               e.op = "fence" => e.h \in {H("signaled", 0), H("pending", 0)}
         /\ result'.tag # "Blocked"]_vars

\* C24: when RendererFrond::resurrect has rebuilt the SharedFrond and the
\* construction of a pass frond then fails, the swapchain comes back to the
\* caller with the error: draw() does not panic, returns the error, and
\* leaves the Renderer Retiring with a swapchain that is alive.
C24_ResurrectPassFrondFailure ==
    [][/\ ResurrectAttempted
       /\ Ev("new", H("SharedFrond", frame')) \in Range(log')
       /\ input'[1] > 0
       /\ ~Called(log', "wait_for_fences")
       => /\ result'.tag = "Err"
          /\ Retiring'
          /\ stem_and_frond'.swapchain \in alive']_vars

\* C25: Renderer::rebuild entered in Live or Retiring leaves the Renderer
\* Live or Retiring, with the same SharedStem instance, whatever its
\* outcome.  A draw() that starts with a stem and does not call lose_device
\* ends with that stem: it neither drops it nor builds another.
C25_RebuildKeepsStem ==
    [][DrawStep /\ ~NoDevice /\ ~lost' =>
         /\ Live' \/ Retiring'
         /\ heap'["SharedStem"] = heap["SharedStem"]
         /\ Ev("new", H("SharedStem", frame')) \notin Range(log')
         /\ Ev("drop", H("SharedStem", 0)) \notin Range(log')]_vars

\* the calls that reset, record or submit the stem's command buffer
CommandBufferCalls ==
    {"reset_command_buffer", "begin_command_buffer", "geometry.draw",
     "lighting.draw", "tonemapping.draw", "end_command_buffer", "queue_submit"}

\* the fence wait of the draw() that wrote log l with inputs in and result r
\* has returned successfully
WaitReturned(l, in, r) ==
    /\ Called(l, "wait_for_fences")
    /\ r.tag # "Blocked"
    /\ FallibleAt(l, in[1]) # CallAt(l, "wait_for_fences")

\* C26: at most one submission of the command buffer is outstanding.  In
\* every draw(), the command buffer is reset, recorded and submitted only
\* after the wait on the presentation fence has returned in that draw(),
\* each of these calls is made at most once, none of them follows the
\* queue_submit of that draw(), and a submission is left pending only by the
\* queue_submit of this draw() or, when this draw() has not waited, by
\* that of an earlier one.
C26_OneSubmissionOutstanding ==
    [][DrawStep =>
         /\ \A k \in CommandBufferCalls \cup {"wait_for_fences"} :
               Cardinality({ i \in 1..Len(log') : log'[i] = Ev("call", H(k, 0)) }) <= 1
         /\ \A k \in CommandBufferCalls :
               Called(log', k) =>
                 /\ WaitReturned(log', input', result')
                 /\ CallAt(log', "wait_for_fences") < CallAt(log', k)
                 /\ Called(log', "queue_submit")
                       => CallAt(log', k) <= CallAt(log', "queue_submit")
         /\ fence' = "pending" =>
               \/ Called(log', "queue_submit")
               \/ fence = "pending" /\ ~WaitReturned(log', input', result')]_vars

\* C26 case: a draw() has waited on the fence of the submission of the
\* draw() before it and has submitted again
C26_Witness ==
    /\ AfterDraw /\ frame >= 2 /\ Live
    /\ Ev("fence", H("pending", 0)) \in Range(log)
    /\ Called(log, "reset_command_buffer") /\ Called(log, "queue_submit")
    /\ fence = "pending"

\* the places in log l of the calls named k
CallsAt(l, k) == { i \in 1..Len(l) : l[i] = Ev("call", H(k, 0)) }

SameSharedFrond ==
    /\ heap["SharedFrond"].rc > 0 /\ heap'["SharedFrond"].rc > 0
    /\ heap'["SharedFrond"].f.diffuse = heap["SharedFrond"].f.diffuse

\* C28: every SharedFrond has a stored resolution of non-zero width and
\* height, set at construction to the drawable area and never changed while
\* the SharedFrond lives; a step after which the resolution differs has
\* dropped the SharedFrond and built another.
C28_ResolutionFixed ==
    [][/\ heap'["SharedFrond"].rc > 0 =>
            /\ heap'["SharedFrond"].f.resolution[1] > 0
            /\ heap'["SharedFrond"].f.resolution[2] > 0
       /\ SameSharedFrond => heap'["SharedFrond"].f = heap["SharedFrond"].f
       /\ heap'["SharedFrond"].rc > 0 /\ ~SameSharedFrond =>
            /\ Ev("new", H("SharedFrond", frame')) \in Range(log')
            /\ heap'["SharedFrond"].f.resolution = area'
            /\ heap["SharedFrond"].rc > 0
                  => Ev("drop", H("SharedFrond", 0)) \in Range(log')]_vars

\* C28 case: a SharedFrond built by an earlier draw() has been drawn with
\* again and has the resolution it was built with
C28_Witness ==
    /\ AfterDraw /\ Live /\ frame >= 2
    /\ heap["SharedFrond"].f.diffuse.image[2] < frame
    /\ heap["SharedFrond"].f.resolution = area
    /\ Called(log, "queue_present")

\* the auxiliary images of the SharedFrond
AuxiliaryImages ==
    { heap["SharedFrond"].f.diffuse, heap["SharedFrond"].f.normal,
      heap["SharedFrond"].f.depth_stencil, heap["SharedFrond"].f.shadow,
      heap["SharedFrond"].f.light }

\* C29 as stated: every auxiliary image of a SharedFrond (diffuse, normal,
\* depth_stencil, shadow, light) has the width and height of the
\* SharedFrond's stored resolution.
C29_AllImagesAtResolution ==
    heap["SharedFrond"].rc > 0 =>
      \A img \in AuxiliaryImages : img.resolution = heap["SharedFrond"].f.resolution

\* C29, amended: the diffuse, normal, depth_stencil and light images of a
\* SharedFrond have the width and height of its stored resolution; the
\* shadow image is 1024 by 1024 whatever the resolution.
C29_ImagesAtResolutionButShadow ==
    heap["SharedFrond"].rc > 0 =>
      /\ \A img \in AuxiliaryImages \ {heap["SharedFrond"].f.shadow} :
            img.resolution = heap["SharedFrond"].f.resolution
      /\ heap["SharedFrond"].f.shadow.resolution = <<1024, 1024>>
      /\ heap["SharedFrond"].f.shadow.resolution # heap["SharedFrond"].f.resolution

\* C29 case: a SharedFrond has been built for a window that is not square
C29_Witness ==
    /\ AfterDraw /\ Live
    /\ heap["SharedFrond"].f.resolution = <<2, 1>>
    /\ heap["SharedFrond"].f.light.resolution = <<2, 1>>
    /\ heap["SharedFrond"].f.shadow.image \in alive

\* the place in log l where handle h was created, 0 when it was not
CreatedAt(l, h) ==
    IF h \in CreatedIn(l) THEN CHOOSE i \in 1..Len(l) : l[i] = Ev("create", h) ELSE 0

\* the handles created in log l from place i on
CreatedFrom(l, i) == { l[j].h : j \in { x \in i..Len(l) : l[x].op = "create" } }

\* the place of the first drop of an object in log l after place i
FirstDropAfter(l, i) ==
    IF \E j \in (i + 1)..Len(l) : l[j].op = "drop"
    THEN CHOOSE j \in (i + 1)..Len(l) :
             l[j].op = "drop" /\ \A x \in (i + 1)..(j - 1) : l[x].op # "drop"
    ELSE Len(l) + 1

\* C30: when SharedFrond::new, called without a previous swapchain, fails
\* at a step after the creation of the swapchain, the new swapchain, every
\* swapchain image view and every auxiliary image created so far are
\* destroyed exactly once before the error is returned (before the caller
\* drops anything), and no handle of the attempt is left alive.
C30_SharedFrondNewUnwinds ==
    [][/\ DrawStep /\ NoDevice /\ input'[1] > 0
       /\ H("swapchain", frame') \in CreatedIn(log')
       /\ Ev("new", H("SharedFrond", frame')) \notin Range(log')
       => LET i == FallibleAt(log', input'[1])
              made == CreatedFrom(log', CreatedAt(log', H("swapchain", frame')))
              d == FirstDropAfter(log', i)
          IN  /\ i > CreatedAt(log', H("swapchain", frame'))
              /\ H("swapchain", frame') \in made
              /\ made \cap alive' = {}
              /\ \A h \in made : TimesDestroyed(log', h) = 1
              /\ made = { log'[j].h : j \in (i + 1)..(d - 1) }
              /\ \A j \in (i + 1)..(d - 1) : log'[j].op = "destroy"
              /\ result'.tag = "Err"]_vars

\* C30 case: SharedFrond::new has failed at the view of its last image and
\* has destroyed the swapchain and the images before it
C30_Witness ==
    /\ AfterDraw /\ NoDevice /\ result.tag = "Err"
    /\ CreateFailed(log, "light.view")
    /\ TimesDestroyed(log, H("swapchain", frame)) = 1
    /\ TimesDestroyed(log, H("shadow.image", frame)) = 1
    /\ TimesDestroyed(log, HI("swapchain_image_view", frame, 1)) = 1
    /\ \A h \in alive : h[2] # frame

\* ------------------------------------------------------------------ C31
\* the API calls that are handed the surface: the three queries and the
\* support query, the creation of a swapchain on it (made or failed) and
\* its destruction
TakesSurface(e) ==
    \/ e.op = "call" /\ e.h[1] \in {"get_physical_device_surface_support",
                                     "get_physical_device_surface_formats",
                                     "get_physical_device_surface_capabilities",
                                     "get_physical_device_surface_present_modes",
                                     "create_swapchain"}
    \/ e.op = "create" /\ e.h[1] = "swapchain"
    \/ e.op = "destroy" /\ e.h # NULL /\ e.h[1] = "surface"

SurfaceLock == Ev("call", H("surface.lock", 0))
SurfaceUnlock == Ev("call", H("surface.unlock", 0))

\* the lock, unlock and surface calls of a log, in order
SurfaceTrace(l) ==
    SelectSeq(l, LAMBDA e : e \in {SurfaceLock, SurfaceUnlock} \/ TakesSurface(e))

\* C31: in every operation of the renderer, every API call that takes the
\* surface is made between a lock of the surface mutex and the unlock that
\* follows it, the mutex is never locked while it is held, and it is
\* released when the operation returns, on success and on every failure.
C31_SurfaceLockedForCalls ==
    [][\A P \in {SurfaceTrace(log')} :
           /\ \A i \in 1..Len(P) :
                /\ P[i] = SurfaceLock => i = 1 \/ P[i - 1] = SurfaceUnlock
                /\ P[i] # SurfaceLock => i > 1 /\ P[i - 1] # SurfaceUnlock
           /\ P # << >> => P[Len(P)] = SurfaceUnlock]_vars

\* C31 case: a first draw() has locked the surface for SharedStem::new, for
\* the format query and for create_swapchain, whose present mode query has
\* failed with the lock held
C31_Witness ==
    /\ AfterDraw /\ result.tag = "Err"
    /\ CreateFailed(log, "get_physical_device_surface_present_modes")
    /\ Len(SelectSeq(log, LAMBDA e : e = SurfaceLock)) = 3
    /\ Len(SelectSeq(log, LAMBDA e : e = SurfaceUnlock)) = 3
    /\ log[Len(log)] # SurfaceUnlock

\* ------------------------------------------------------------------ C32
\* C32: whenever draw() calls acquire_next_image, the image-acquired
\* semaphore it hands over is unsignaled with no operation pending on it.
\* A draw() that has returned an error after acquire_next_image and before
\* the batch was submitted leaves the semaphore signaled and the fence
\* unsignaled; no later draw() on that stem gets as far as
\* acquire_next_image.
C32_AcquireSemaphoreUnsignaled ==
    [][/\ DrawStep /\ Called(log', "acquire_next_image")
            => /\ Ev("semaphore", H("unsignaled", 0)) \in Range(log')
               /\ \A e \in Range(log') : e.op = "semaphore" => e.h = H("unsignaled", 0)
       /\ semaphore' = "signaled" => fence' = "unsignaled"
       /\ DrawStep /\ semaphore = "signaled" /\ Called(log', "acquire_next_image")
            => H("image_acquired_semaphore", frame') \in CreatedIn(log')]_vars

\* C32 case: a draw() has acquired an image with the semaphore of a stem
\* built by an earlier draw(), whose batch had waited on it
C32_Witness ==
    /\ AfterDraw /\ Called(log, "acquire_next_image")
    /\ Ev("semaphore", H("unsignaled", 0)) \in Range(log)
    /\ heap["SharedStem"].rc > 0 /\ heap["SharedStem"].f.id < frame
    /\ semaphore = "pending"

\* ------------------------------------------------------------------ C33
\* the places of a log where a logical device is destroyed
DeviceDestroys(l) ==
    { i \in 1..Len(l) : l[i].op = "destroy" /\ l[i].h # NULL /\ l[i].h[1] = "device" }

\* the handles made with a device that are alive when l[i] is about to
\* destroy it: all but those of the crown
ChildrenAt(before, l, i) ==
    ((before \cup CreatedIn(SubSeq(l, 1, i - 1))) \ DestroyedIn(SubSeq(l, 1, i - 1)))
        \ (CrownHandles \cup {l[i].h})

\* C33: whenever an operation destroys a logical device, every handle that
\* was created with that device by a SharedFrond, a SharedFrondSwapchain, a
\* pass stem or a pass frond, and every other handle of the stem, has been
\* destroyed before.
C33_DeviceDestroyedLast ==
    [][\A i \in DeviceDestroys(log') : ChildrenAt(alive, log', i) = {}]_vars

\* the same for every handle but the swapchains: what outlives a device is
\* never anything but a retired swapchain that lost its owner
C33_OnlySwapchainsOutliveDevice ==
    [][\A i \in DeviceDestroys(log') :
           \A h \in ChildrenAt(alive, log', i) : h[1] = "swapchain"]_vars

\* ------------------------------------------------------------------ C34
\* C34: the identity check of the pass frond constructors never fires: no
\* operation ends in the panic "Mismatched stems", and whenever a pass
\* frond exists, its pass stem and the SharedFrond exist and refer to the
\* one SharedStem of the Renderer.
C34_AssertIsNeverFires ==
    /\ result.err # "Mismatched stems"
    /\ \A i \in 1..Len(PassFronds) :
         heap[PassFronds[i]].rc > 0 =>
             /\ heap[PassStems[i]].rc > 0 /\ heap["SharedFrond"].rc > 0
             /\ heap["SharedStem"].rc > 0
             /\ heap[PassStems[i]].f.shared_stem = heap["SharedStem"].f.id
             /\ heap["SharedFrond"].f.stem = heap["SharedStem"].f.id

\* C34 case: a draw() has resurrected the SharedFrond and built the three
\* pass fronds from it and from the pass stems of an earlier draw()
C34_Witness ==
    /\ AfterDraw /\ Live
    /\ Ev("new", H("SharedFrond", frame)) \in Range(log)
    /\ heap["SharedStem"].f.id < frame
    /\ \A i \in 1..Len(PassFronds) :
         /\ heap[PassFronds[i]].rc > 0
         /\ heap[PassStems[i]].f.shared_stem = heap["SharedFrond"].f.stem

\* ------------------------------------------------------------------ C35
\* the place of the destroy call on h in a log, 0 when there is none
DestroyAt(l, h) ==
    IF Ev("destroy", h) \in Range(l)
    THEN CHOOSE i \in 1..Len(l) : l[i] = Ev("destroy", h)
    ELSE 0

\* C35: when the sequence guard over the swapchain image views is dropped
\* without take(), in a draw() whose SharedFrond::new fails after views
\* have been pushed, a view pushed later is destroyed earlier.
C35_SequenceGuardReverseOrder ==
    [][DrawStep /\ Ev("new", H("SharedFrond", frame')) \notin Range(log')
       => \A a, b \in 1..NumSwapchainImages :
            /\ a < b
            /\ DestroyAt(log', HI("swapchain_image_view", frame', a)) > 0
            /\ DestroyAt(log', HI("swapchain_image_view", frame', b)) > 0
            => DestroyAt(log', HI("swapchain_image_view", frame', b))
                 < DestroyAt(log', HI("swapchain_image_view", frame', a))]_vars

====
